---- MODULE Spec2Model ----
(***************************************************************************)
(* Model of the odds-history alignment engine (extract_odds_columns.py:    *)
(* extract_odds_columns, output_columns, filter_and_fill_data) and of the  *)
(* special-markets fetcher (fetch_special_markets.py: _normalize_text,     *)
(* specials_to_rows, pivot_outcomes_wide, _append_long_csv,                *)
(* _append_wide_csv), alone, run after run, and as two invocations         *)
(* appending to one table at the same time.                                *)
(*                                                                         *)
(* Python values are carried as follows: a str is a TLA+ string, an int    *)
(* timestamp is an integer, an odds value is the decimal literal it prints *)
(* as ("1.5"), None is the reserved string None, a list is a sequence, a   *)
(* dict is a record [keys, val] whose keys sequence is the insertion       *)
(* order.  Python indices are 0-based; sequences here are 1-based, and the *)
(* index fields of the audit records hold the Python (0-based) index.      *)
(***************************************************************************)
EXTENDS Integers, Sequences, FiniteSets, TLC

VARIABLES pc, columns, all_timestamps, min_values_per_row, column_names,
          sorted_timestamps, initial_data, filtered_data, filtered_timestamps,
          fill_report, col_idx, fills_in_column, output

alignVars == <<pc, columns, all_timestamps, min_values_per_row, column_names,
               sorted_timestamps, initial_data, filtered_data,
               filtered_timestamps, fill_report, col_idx, fills_in_column,
               output>>

VARIABLES fetch_pc, run, rows, wide, long_csv, wide_csv, fetched

appendVars == <<fetch_pc, run, rows, wide, long_csv, wide_csv, fetched>>

VARIABLES replay_pc, snap_a, snap_b, tables

replayVars == <<replay_pc, snap_a, snap_b, tables>>

VARIABLES extract_pc, json_data, extracted, out_files, out_before

extractVars == <<extract_pc, json_data, extracted, out_files, out_before>>

VARIABLES flatten_pc, specials, flat_rows

flattenVars == <<flatten_pc, specials, flat_rows>>

VARIABLES race_pc, race_kind, race_rows, race_seen, race_start, disk,
          disk_tail, race_log

raceVars == <<race_pc, race_kind, race_rows, race_seen, race_start, disk,
              disk_tail, race_log>>

\* what a step of one program leaves alone: the state of the others
outsideAlign == <<appendVars, replayVars, extractVars, flattenVars, raceVars>>

outsideAppend == <<alignVars, replayVars, extractVars, flattenVars, raceVars>>

outsideReplay == <<alignVars, appendVars, extractVars, flattenVars, raceVars>>

outsideExtract == <<alignVars, appendVars, replayVars, flattenVars, raceVars>>

outsideFlatten == <<alignVars, appendVars, replayVars, extractVars, raceVars>>

outsideRace == <<alignVars, appendVars, replayVars, extractVars, flattenVars>>

vars == <<alignVars, appendVars, replayVars, extractVars, flattenVars, raceVars>>

-----------------------------------------------------------------------------
(* Bounds of the model                                                     *)

NumTimestamps == 3
MaxEntries == 4
MaxThreshold == 2
MaxNamedColumns == 3
MaxRuns == 2
MaxOutcomes == 2
MaxItems == 2
MaxLines == 2

-----------------------------------------------------------------------------
(* Python str primitives                                                   *)

None == "<None>"

\* printable ASCII in code-point order, chr(32) .. chr(126); chr(96) does
\* not occur in any modelled string and is held by a blank
Ascii == " !\"#$%&'()*+,-./0123456789:;<=>?@ABCDEFGHIJKLMNOPQRSTUVWXYZ[\\]^_ abcdefghijklmnopqrstuvwxyz{|}~"

CharAt(s, i) == SubSeq(s, i, i)

ord(c) == 31 + (CHOOSE i \in 1..Len(Ascii) :
                   /\ CharAt(Ascii, i) = c
                   /\ \A j \in 1..(i - 1) : CharAt(Ascii, j) # c)

chr(n) == CharAt(Ascii, n - 31)

Min(a, b) == IF a <= b THEN a ELSE b

\* sub in s
Contains(s, sub) ==
    \E i \in 1..(Len(s) - Len(sub) + 1) : SubSeq(s, i, i + Len(sub) - 1) = sub

RECURSIVE replace(_, _, _)
\* s.replace(old, new): the occurrences of old are taken from the left and
\* do not overlap; an empty old matches before every character and at the
\* end
replace(s, old, new) ==
    IF old = ""
    THEN IF s = "" THEN new
         ELSE new \o CharAt(s, 1) \o replace(SubSeq(s, 2, Len(s)), old, new)
    ELSE LET hits == { i \in 1..(Len(s) - Len(old) + 1) :
                         SubSeq(s, i, i + Len(old) - 1) = old }
         IN  IF hits = {} THEN s
             ELSE LET i == CHOOSE k \in hits : \A j \in hits : k <= j
                  IN  SubSeq(s, 1, i - 1) \o new
                      \o replace(SubSeq(s, i + Len(old), Len(s)), old, new)

RECURSIVE lower(_)
\* s.lower() on ASCII
lower(s) ==
    IF s = "" THEN ""
    ELSE LET c == CharAt(s, 1)
         IN  (IF ord(c) >= 65 /\ ord(c) <= 90 THEN chr(ord(c) + 32) ELSE c)
             \o lower(SubSeq(s, 2, Len(s)))

\* s.strip(): the modelled strings hold no whitespace but the blank
strip(s) ==
    LET inked == { i \in 1..Len(s) : CharAt(s, i) # " " }
    IN  IF inked = {} THEN ""
        ELSE SubSeq(s, CHOOSE i \in inked : \A j \in inked : i <= j,
                       CHOOSE i \in inked : \A j \in inked : j <= i)

\* str.__lt__: compare code points at the first differing position, a proper
\* prefix is smaller
StrLess(a, b) ==
    LET n == Min(Len(a), Len(b))
        diff == { i \in 1..n : CharAt(a, i) # CharAt(b, i) }
    IN  IF diff = {} THEN Len(a) < Len(b)
        ELSE LET i == CHOOSE k \in diff : \A j \in diff : k <= j
             IN  ord(CharAt(a, i)) < ord(CharAt(b, i))

startswith(s, p) == Len(p) <= Len(s) /\ SubSeq(s, 1, Len(p)) = p

RECURSIVE split(_, _)
\* s.split(sep) for a one-character separator
split(s, sep) ==
    LET hits == { i \in 1..Len(s) : CharAt(s, i) = sep }
    IN  IF hits = {} THEN <<s>>
        ELSE LET i == CHOOSE k \in hits : \A j \in hits : k <= j
             IN  <<SubSeq(s, 1, i - 1)>> \o split(SubSeq(s, i + 1, Len(s)), sep)

Digits == {"0", "1", "2", "3", "4", "5", "6", "7", "8", "9"}

IsDigits(s) == \A i \in 1..Len(s) : CharAt(s, i) \in Digits

RECURSIVE DigitsValue(_)
DigitsValue(s) ==
    IF Len(s) = 0 THEN 0
    ELSE 10 * DigitsValue(SubSeq(s, 1, Len(s) - 1)) + (ord(CharAt(s, Len(s))) - 48)

RECURSIVE Pow10(_)
Pow10(n) == IF n = 0 THEN 1 ELSE 10 * Pow10(n - 1)

\* float(s) on plain decimal literals [sign] digits [. digits].  The result
\* is [ok |-> FALSE] where Python raises ValueError, and otherwise the exact
\* value num / 10^exp.
float(s) ==
    LET signed == Len(s) > 0 /\ CharAt(s, 1) \in {"-", "+"}
        body   == IF signed THEN SubSeq(s, 2, Len(s)) ELSE s
        parts  == split(body, ".")
        ip     == parts[1]
        fp     == IF Len(parts) = 2 THEN parts[2] ELSE ""
        mag    == DigitsValue(ip) * Pow10(Len(fp)) + DigitsValue(fp)
    IN  IF /\ Len(parts) <= 2
           /\ IsDigits(ip) /\ IsDigits(fp)
           /\ Len(ip) + Len(fp) > 0
        THEN [ok |-> TRUE,
              num |-> IF signed /\ CharAt(s, 1) = "-" THEN 0 - mag ELSE mag,
              exp |-> Len(fp)]
        ELSE [ok |-> FALSE, num |-> 0, exp |-> 0]

NumLess(a, b) == a.num * Pow10(b.exp) < b.num * Pow10(a.exp)
NumEq(a, b)   == a.num * Pow10(b.exp) = b.num * Pow10(a.exp)

Zero == [ok |-> TRUE, num |-> 0, exp |-> 0]

-----------------------------------------------------------------------------
(* Python list and dict primitives                                         *)

Range(s) == { s[i] : i \in 1..Len(s) }

InList(x, s) == \E i \in 1..Len(s) : s[i] = x

\* [x for x in s if Test(x)]
SelectList(s, Test(_)) ==
    LET f[i \in 0..Len(s)] ==
            IF i = 0 THEN <<>>
            ELSE IF Test(s[i]) THEN Append(f[i - 1], s[i]) ELSE f[i - 1]
    IN  f[Len(s)]

\* insertion of x into the sorted list t behind every element that is not
\* greater than x (equal keys keep their arrival order)
InsertSorted(x, t, Less(_, _)) ==
    LET k == Cardinality({ i \in 1..Len(t) : ~Less(x, t[i]) })
    IN  SubSeq(t, 1, k) \o <<x>> \o SubSeq(t, k + 1, Len(t))

\* list.sort / sorted(): stable, ascending under Less
SortedList(s, Less(_, _)) ==
    LET f[i \in 0..Len(s)] ==
            IF i = 0 THEN <<>> ELSE InsertSorted(s[i], f[i - 1], Less)
    IN  f[Len(s)]

RECURSIVE SetToList(_)
\* iteration over a set: the order is arbitrary, sorting removes the choice
SetToList(S) ==
    IF S = {} THEN <<>>
    ELSE LET x == CHOOSE y \in S : TRUE IN <<x>> \o SetToList(S \ {x})

\* IntLess reversed
IntLess_Descending(a, b) == a > b

IntLess(a, b) == a < b

-----------------------------------------------------------------------------
(* output_columns: the header                                              *)

preferred_order == <<"money_line_home", "money_line_draw", "money_line_away">>

\* (value, side_order) tuples compare lexicographically
KeyLess(a, b) ==
    \/ NumLess(a.val, b.val)
    \/ NumEq(a.val, b.val) /\ a.side < b.side

\* side_sort_key that ignores the numeric value
side_sort_key_NoValue(x, first_side) ==
    LET parts == split(x, "_")
    IN  IF Len(parts) >= 3
        THEN [val |-> Zero, side |-> IF parts[3] = first_side THEN 0 ELSE 1]
        ELSE [val |-> Zero, side |-> 0]

\* the key of the nested function of output_columns: (0, 0) when float()
\* raises ValueError or parts[2] raises IndexError
side_sort_key(x, first_side) ==
    LET parts == split(x, "_")
    IN  IF Len(parts) >= 2
        THEN IF float(parts[2]).ok /\ Len(parts) >= 3
             THEN [val |-> float(parts[2]),
                   side |-> IF parts[3] = first_side THEN 0 ELSE 1]
             ELSE [val |-> Zero, side |-> 0]
        ELSE [val |-> Zero, side |-> 0]

spread_sort_key(x) == side_sort_key(x, "home")

totals_sort_key(x) == side_sort_key(x, "over")

SpreadLess(x, y) == KeyLess(spread_sort_key(x), spread_sort_key(y))

TotalsLess(x, y) == KeyLess(totals_sort_key(x), totals_sort_key(y))

IsSpreadCol(col) == startswith(col, "spread_")

IsTotalsCol(col) == startswith(col, "totals_")

\* column_names as built by output_columns for the dict cols
ColumnNames(cols) ==
    LET InCols(c)   == InList(c, cols.keys)
        moneyline   == SelectList(preferred_order, InCols)
        spread_cols == SortedList(SelectList(cols.keys, IsSpreadCol), SpreadLess)
        totals_cols == SortedList(SelectList(cols.keys, IsTotalsCol), TotalsLess)
        placed      == <<"timestamp">> \o moneyline \o spread_cols \o totals_cols
        NotPlaced(c) == ~InList(c, placed)
    IN  placed \o SelectList(SortedList(cols.keys, StrLess), NotPlaced)

-----------------------------------------------------------------------------
(* filter_and_fill_data                                                    *)

\* slot of column col at timestamp ts in the initial matrix
InitialSlot(cols, col, ts) ==
    IF InList(col, cols.keys) /\ ts \in DOMAIN cols.val[col]
    THEN cols.val[col][ts]
    ELSE None

InitialRow(cols, names, ts) ==
    <<ts>> \o [k \in 1..(Len(names) - 1) |-> InitialSlot(cols, names[k + 1], ts)]

InitialData(cols, names, stamps) ==
    [i \in 1..Len(stamps) |-> InitialRow(cols, names, stamps[i])]

\* number of non-None values of a row, the timestamp excluded
NonEmptyCount(row) == Cardinality({ k \in 2..Len(row) : row[k] # None })

\* RowKept with an inclusive threshold
RowKept_AtLeast(row, threshold) == NonEmptyCount(row) >= threshold

RowKept(row, threshold) == NonEmptyCount(row) > threshold

\* KeptIndices that keeps the rows holding exactly threshold + 1 values
KeptIndices_Exactly(data, threshold) ==
    SelectList([i \in 1..Len(data) |-> i],
               LAMBDA i : NonEmptyCount(data[i]) = threshold + 1)

\* indices (1-based) of the rows of data that pass the filter, ascending
KeptIndices(data, threshold) ==
    SelectList([i \in 1..Len(data) |-> i],
               LAMBDA i : RowKept(data[i], threshold))

\* RemovedIndices that records the rows below the threshold only
RemovedIndices_Below(data, threshold) ==
    SelectList([i \in 1..Len(data) |-> i],
               LAMBDA i : NonEmptyCount(data[i]) < threshold)

RemovedIndices(data, threshold) ==
    SelectList([i \in 1..Len(data) |-> i],
               LAMBDA i : ~RowKept(data[i], threshold))

RemovedRecord(data, i) ==
    [timestamp |-> data[i][1],
     non_empty_count |-> NonEmptyCount(data[i]),
     index |-> i - 1]

EmptyReport == [total_filled |-> 0, by_column |-> <<>>, by_row |-> <<>>,
                removed_rows |-> <<>>]

\* by_row[row_idx] = [entry], dropping what the row held
ByRowAppend_Reset(by_row, row_idx, entry) ==
    IF row_idx \in DOMAIN by_row
    THEN [by_row EXCEPT ![row_idx] = <<entry>>]
    ELSE (row_idx :> <<entry>>) @@ by_row

\* by_row[row_idx].append(entry), creating the list on first use
ByRowAppend(by_row, row_idx, entry) ==
    IF row_idx \in DOMAIN by_row
    THEN [by_row EXCEPT ![row_idx] = Append(@, entry)]
    ELSE (row_idx :> <<entry>>) @@ by_row

\* a fill that writes v into every value slot of the row r
ApplyFill_AcrossRow(st, r, c, name, v, method) ==
    [st EXCEPT
       !.data[r] = [k \in DOMAIN @ |-> IF k = 1 THEN @[k] ELSE v],
       !.fills = Append(@, [row_index |-> r - 1,
                            timestamp |-> filtered_timestamps[r],
                            filled_value |-> v,
                            method |-> method]),
       !.total = @ + 1,
       !.by_row = ByRowAppend(@, r - 1, [column |-> name,
                                         filled_value |-> v,
                                         method |-> method])]

\* one fill of the slot (row r, column c) with value v by the given method
ApplyFill(st, r, c, name, v, method) ==
    [st EXCEPT
       !.data[r][c] = v,
       !.fills = Append(@, [row_index |-> r - 1,
                            timestamp |-> filtered_timestamps[r],
                            filled_value |-> v,
                            method |-> method]),
       !.total = @ + 1,
       !.by_row = ByRowAppend(@, r - 1, [column |-> name,
                                         filled_value |-> v,
                                         method |-> method])]

\* ForwardFilled that never refreshes the tracked value
ForwardFilled_FirstValue(data, report, c, name) ==
    LET f[i \in 0..Len(data)] ==
            IF i = 0
            THEN [data |-> data, last |-> None, fills |-> <<>>,
                  total |-> report.total_filled, by_row |-> report.by_row]
            ELSE LET p == f[i - 1]
                 IN  IF p.data[i][c] = None
                     THEN IF p.last # None
                          THEN ApplyFill(p, i, c, name, p.last, "forward_fill")
                          ELSE p
                     ELSE IF p.last = None THEN [p EXCEPT !.last = p.data[i][c]]
                     ELSE p
    IN  f[Len(data)]

\* the forward-fill loop of column c over all rows
ForwardFilled(data, report, c, name) ==
    LET f[i \in 0..Len(data)] ==
            IF i = 0
            THEN [data |-> data, last |-> None, fills |-> <<>>,
                  total |-> report.total_filled, by_row |-> report.by_row]
            ELSE LET p == f[i - 1]
                 IN  IF p.data[i][c] = None
                     THEN IF p.last # None
                          THEN ApplyFill(p, i, c, name, p.last, "forward_fill")
                          ELSE p
                     ELSE [p EXCEPT !.last = p.data[i][c]]
    IN  f[Len(data)]

\* FirstNonNone that keeps scanning to the last row with a value
FirstNonNone_Last(data, c) ==
    LET hits == { i \in 1..Len(data) : data[i][c] # None }
    IN  IF hits = {} THEN 0
        ELSE CHOOSE i \in hits : \A j \in hits : j <= i

\* 1-based index of the first row with a value in column c, 0 when none
FirstNonNone(data, c) ==
    LET hits == { i \in 1..Len(data) : data[i][c] # None }
    IN  IF hits = {} THEN 0
        ELSE CHOOSE i \in hits : \A j \in hits : i <= j

\* BackwardFilled that leaves the leading gap alone
BackwardFilled_Skipped(data, report, fills, c, name) ==
    [data |-> data, fills |-> fills,
     total |-> report.total_filled, by_row |-> report.by_row]

\* the backward-fill loop of column c: rows first-1 down to 0
BackwardFilled(data, report, fills, c, name) ==
    LET first == FirstNonNone(data, c)
        start == [data |-> data, fills |-> fills,
                  total |-> report.total_filled, by_row |-> report.by_row]
        f[k \in 0..Len(data)] ==
            IF k = 0 THEN start
            ELSE LET p == f[k - 1]
                     r == first - k
                 IN  IF p.data[r][c] = None
                     THEN ApplyFill(p, r, c, name, data[first][c], "backward_fill")
                     ELSE p
    IN  IF first > 1 THEN f[first - 1] ELSE start

-----------------------------------------------------------------------------
(* output_columns: the lines of the table                                  *)

RECURSIVE join(_, _)
\* sep.join(cells)
join(sep, cells) ==
    IF Len(cells) = 0 THEN ""
    ELSE IF Len(cells) = 1 THEN cells[1]
    ELSE cells[1] \o sep \o join(sep, Tail(cells))

\* the cell that holds str(val) for an absent value as well
OutputCell_Str(val) == IF val = None THEN "None" ELSE val

\* str(val) if val is not None, else ''
OutputCell(val) == IF val = None THEN "" ELSE val

\* one line of the table: str(timestamp), then the cell of every value
OutputRow(row) ==
    join(",", <<ToString(row[1])>>
              \o [k \in 1..(Len(row) - 1) |-> OutputCell(row[k + 1])])

-----------------------------------------------------------------------------
(* Inputs of the alignment run                                             *)

Timestamps == { 100 * i : i \in 1..NumTimestamps }

Odds == {"1.5", "1.6"}

Thresholds == 0..MaxThreshold

Dict(keys, val) == [keys |-> keys, val |-> val]

\* the three money-line series holding the observations v over the slots E
SeriesColumns(E, v) ==
    Dict(preferred_order,
         [col \in Range(preferred_order) |->
             LET k == CHOOSE j \in 1..3 : preferred_order[j] = col
             IN  [ts \in { t \in Timestamps : <<k, t>> \in E } |-> v[<<k, ts>>]]])

\* column names the extraction can produce: reserved money-line names,
\* spread_<handicap>_<side>, totals_<line>_<side>, <family>_<subkey>
NameUniverse ==
    {"money_line_home", "money_line_draw", "money_line_away",
     "spread_-0.5_home", "spread_-0.5_away", "spread_1_away",
     "spread_1.0_home", "spread_pk_home",
     "totals_2.5_under", "totals_2.5_over", "totals_10.5_over",
     "corners_home", "Bookings_away"}

\* lists of distinct names of NameUniverse, at most MaxNamedColumns long
NameLists ==
    { l \in UNION { [1..n -> NameUniverse] : n \in 0..MaxNamedColumns } :
        \A i, j \in 1..Len(l) : i # j => l[i] # l[j] }

\* every named column observed once, at the first timestamp
NamedColumns(l) == Dict(l, [col \in Range(l) |-> (100 :> "1.5")])

\* f"{prefix}{key}_{side}" for every key and both sides, key by key
SideColumns(prefix, keys, sides) ==
    [i \in 1..(2 * Len(keys)) |->
        prefix \o keys[(i + 1) \div 2] \o "_" \o sides[2 - (i % 2)]]

\* Scenario 1: home=[[100,1.5],[200,1.6]], draw=[[100,3.2]], away=[[200,5.0]]
Scenario1Columns ==
    Dict(preferred_order,
         [col \in Range(preferred_order) |->
             CASE col = "money_line_home" -> (100 :> "1.5") @@ (200 :> "1.6")
               [] col = "money_line_draw" -> (100 :> "3.2")
               [] col = "money_line_away" -> (200 :> "5.0")])

Scenario2Names ==
    preferred_order
    \o SideColumns("spread_",
                   <<"-1.5", "-1.0", "-0.75", "-0.5", "0.0", "0.5", "1.0">>,
                   <<"home", "away">>)
    \o SideColumns("totals_",
                   <<"1.5", "2.0", "2.5", "2.75", "3.0", "3.5">>,
                   <<"over", "under">>)
    \o <<"corners_home">>

\* Scenario 2: 30 columns; 5 of them observed at 100, 21 of them at 200
Scenario2Columns ==
    Dict(Scenario2Names,
         [col \in Range(Scenario2Names) |->
             LET k == CHOOSE j \in 1..Len(Scenario2Names) : Scenario2Names[j] = col
             IN  IF k <= 5 THEN (100 :> "1.5") @@ (200 :> "1.6")
                 ELSE IF k <= 21 THEN (200 :> "1.6")
                 ELSE <<>>])

\* all_timestamps as extract_odds_columns accumulates it
AllTimestamps(cols) == UNION { DOMAIN cols.val[c] : c \in Range(cols.keys) }

-----------------------------------------------------------------------------
(* extract_odds_columns: the JSON document                                 *)

\* A JSON value is a node: a dict with its keys in document order, a list
\* with its items, or null.  The two cells of a history entry are carried
\* as they are (an int timestamp, an odds literal).
JDict(keys, val) == [kind |-> "dict", keys |-> keys, val |-> val, items |-> <<>>]

JList(items) == [kind |-> "list", keys |-> <<>>, val |-> <<>>, items |-> items]

JNull == [kind |-> "null", keys |-> <<>>, val |-> <<>>, items |-> <<>>]

\* key in node, for a dict
Has(node, key) == node.kind = "dict" /\ InList(key, node.keys)

\* bool(node)
Truthy(node) ==
    CASE node.kind = "dict" -> node.keys # <<>>
      [] node.kind = "list" -> node.items # <<>>
      [] OTHER -> FALSE

\* the concatenation of a list of lists
Concat(lists) ==
    LET f[i \in 0..Len(lists)] ==
            IF i = 0 THEN <<>> ELSE f[i - 1] \o lists[i]
    IN  f[Len(lists)]

\* the test that takes only the lists of exactly two cells
WellFormed_Pair(item) == item.kind = "list" /\ Len(item.items) = 2

\* isinstance(item, list) and len(item) > 1
WellFormed(item) == item.kind = "list" /\ Len(item.items) > 1

\* timestamp_odds where the first item of a timestamp is kept
TimestampOdds_FirstWins(sub_array) ==
    LET good   == { i \in 1..Len(sub_array.items) : WellFormed(sub_array.items[i]) }
        stamps == { sub_array.items[i].items[1] : i \in good }
    IN  [ts \in stamps |->
            LET hits  == { i \in good : sub_array.items[i].items[1] = ts }
                first == CHOOSE i \in hits : \A j \in hits : i <= j
            IN  sub_array.items[first].items[2]]

\* timestamp_odds after the loop over sub_array: the items that are lists of
\* more than one cell, a later item replacing an earlier one with the same
\* timestamp
TimestampOdds(sub_array) ==
    LET good   == { i \in 1..Len(sub_array.items) : WellFormed(sub_array.items[i]) }
        stamps == { sub_array.items[i].items[1] : i \in good }
    IN  [ts \in stamps |->
            LET hits == { i \in good : sub_array.items[i].items[1] = ts }
                last == CHOOSE i \in hits : \A j \in hits : j <= i
            IN  sub_array.items[last].items[2]]

\* one assignment columns[column_name] = timestamp_odds
Assignment(column_name, sub_array) ==
    [name |-> column_name, series |-> TimestampOdds(sub_array)]

sub_key_order == <<"home", "draw", "away">>

\* sub_key_mapping that names the series as the generic branch would
sub_key_mapping_Generic(sub_key) == "moneyline_" \o sub_key

sub_key_mapping(sub_key) == "money_line_" \o sub_key

\* the assignments of the moneyline branch
MoneylineAssignments(history_value) ==
    LET used == SelectList(sub_key_order,
                           LAMBDA sub_key :
                              /\ InList(sub_key, history_value.keys)
                              /\ history_value.val[sub_key].kind = "list")
    IN  [k \in 1..Len(used) |->
            Assignment(sub_key_mapping(used[k]), history_value.val[used[k]])]

\* the assignments of the spreads and of the totals branch: every line that
\* is a dict, in document order, then the two sides in their fixed order
LineAssignments(prefix, sides, history_value) ==
    LET lines == SelectList(history_value.keys,
                            LAMBDA line : history_value.val[line].kind = "dict")
        OfLine(line) ==
            LET line_data == history_value.val[line]
                used == SelectList(sides,
                                   LAMBDA side :
                                      /\ InList(side, line_data.keys)
                                      /\ line_data.val[side].kind = "list")
            IN  [k \in 1..Len(used) |->
                    Assignment(prefix \o line \o "_" \o used[k],
                               line_data.val[used[k]])]
    IN  Concat([i \in 1..Len(lines) |-> OfLine(lines[i])])

\* the assignments of the generic branch: every direct sub-key holding a list
GenericAssignments(history_key, history_value) ==
    LET used == SelectList(history_value.keys,
                           LAMBDA sub_key : history_value.val[sub_key].kind = "list")
    IN  [k \in 1..Len(used) |->
            Assignment(history_key \o "_" \o used[k], history_value.val[used[k]])]

\* the assignments made for one key of history
FamilyAssignments(history_key, history_value) ==
    IF history_value.kind # "dict" THEN <<>>
    ELSE CASE history_key = "moneyline" -> MoneylineAssignments(history_value)
           [] history_key = "spreads" ->
                LineAssignments("spread_", <<"home", "away">>, history_value)
           [] history_key = "totals" ->
                LineAssignments("totals_", <<"over", "under">>, history_value)
           [] OTHER -> GenericAssignments(history_key, history_value)

\* the dict left by a list of assignments: a key sits where it was first
\* assigned and holds what was assigned last
Assigned(assignments) ==
    LET first == SelectList([i \in 1..Len(assignments) |-> i],
                            LAMBDA i : \A j \in 1..(i - 1) :
                                          assignments[j].name # assignments[i].name)
        keys  == [k \in 1..Len(first) |-> assignments[first[k]].name]
    IN  Dict(keys,
             [name \in Range(keys) |->
                 LET hits == { i \in 1..Len(assignments) : assignments[i].name = name }
                 IN  assignments[CHOOSE i \in hits : \A j \in hits : j <= i].series])

\* columns after the loop over history.items()
HistoryColumns(history) ==
    Assigned(Concat([i \in 1..Len(history.keys) |->
                        FamilyAssignments(history.keys[i],
                                          history.val[history.keys[i]])]))

\* PeriodsWithHistory in reverse document order
PeriodsWithHistory_LastFirst(periods) ==
    SelectList([i \in 1..Len(periods.keys) |-> Len(periods.keys) + 1 - i],
               LAMBDA i : LET period == periods.val[periods.keys[i]]
                          IN  Has(period, "history") /\ Truthy(period.val["history"]))

\* positions of the periods holding a non-empty history, in document order
PeriodsWithHistory(periods) ==
    SelectList([i \in 1..Len(periods.keys) |-> i],
               LAMBDA i : LET period == periods.val[periods.keys[i]]
                          IN  Has(period, "history") /\ Truthy(period.val["history"]))

\* raise ValueError(message)
Raised(message) ==
    [error |-> message, period_key |-> None,
     columns |-> Dict(<<>>, <<>>), all_timestamps |-> {}]

\* return columns, all_timestamps
Returned(period_key, history) ==
    [error |-> None, period_key |-> period_key,
     columns |-> HistoryColumns(history),
     all_timestamps |-> AllTimestamps(HistoryColumns(history))]

\* extract_odds_columns on the parsed document
ExtractOddsColumns(doc) ==
    IF ~Has(doc, "events") \/ Len(doc.val["events"].items) = 0
    THEN Raised("No events found in JSON file")
    ELSE LET event == doc.val["events"].items[1]
         IN  IF ~Has(event, "periods")
             THEN Raised("No periods found in event")
             ELSE LET periods == event.val["periods"]
                      found   == PeriodsWithHistory(periods)
                  IN  IF found = <<>>
                      THEN Raised("No history section found in any period")
                      ELSE Returned(periods.keys[found[1]],
                                    periods.val[periods.keys[found[1]]].val["history"])

-----------------------------------------------------------------------------
(* fetch_special_markets: snapshot rows                                    *)

\* v or default
Or(v, default) == IF v = None \/ v = "" THEN default ELSE v

EVENT_ID == "1619456922"

\* the keys of a row of specials_to_rows, then those main adds, in
\* insertion order
RowKeys ==
    <<"special_id", "event_id", "league_id", "category", "market_name",
      "bet_type", "starts", "cutoff", "home_team", "away_team",
      "line_id", "outcome_id", "outcome_name", "rot_num", "handicap", "price",
      "fetched_at", "api_last", "column_key">>

\* outcome lines of the specials payload, labels as _normalize_text leaves
\* them; the last one collides with the first on its column key
Outcomes ==
    { [special_id |-> "101", category |-> "Match Odds", market_name |-> "1X2",
       line_id |-> "9001", outcome_name |-> "Home", handicap |-> None,
       price |-> "2.1"],
      [special_id |-> "102", category |-> "Totals", market_name |-> "O/U 2.5",
       line_id |-> "9002", outcome_name |-> "Over", handicap |-> "2.5",
       price |-> "1.9"],
      [special_id |-> "103", category |-> None, market_name |-> "Corners",
       line_id |-> "9003", outcome_name |-> "Away", handicap |-> None,
       price |-> None],
      [special_id |-> "104", category |-> "Match Odds", market_name |-> "1X2",
       line_id |-> "9004", outcome_name |-> "Home", handicap |-> None,
       price |-> "2.4"] }

\* the payloads of one fetch: lists of distinct outcome lines
Snapshots ==
    { l \in UNION { [1..n -> Outcomes] : n \in 0..MaxOutcomes } :
        \A i, j \in 1..Len(l) : i # j => l[i] # l[j] }

\* datetime.now(timezone.utc).isoformat() of the n-th run
FetchTime(n) == "2025-11-05T1" \o ToString(n) \o ":00:00+00:00"

API_LAST == "1762336800"

\* the row of one outcome line: specials_to_rows, then the three fields
\* main adds
OutcomeRow(o, fetched_at) ==
    LET base ==
          [k \in Range(RowKeys) |->
             CASE k = "special_id"   -> o.special_id
               [] k = "event_id"     -> EVENT_ID
               [] k = "league_id"    -> "2627"
               [] k = "category"     -> o.category
               [] k = "market_name"  -> o.market_name
               [] k = "bet_type"     -> "MULTI_WAY_HEAD_TO_HEAD"
               [] k = "starts"       -> "2025-11-05T20:00:00"
               [] k = "cutoff"       -> "2025-11-05T20:00:00"
               [] k = "home_team"    -> "Barcelona"
               [] k = "away_team"    -> "Atletico Madrid"
               [] k = "line_id"      -> o.line_id
               [] k = "outcome_id"   -> o.line_id
               [] k = "outcome_name" -> o.outcome_name
               [] k = "rot_num"      -> None
               [] k = "handicap"     -> o.handicap
               [] k = "price"        -> o.price
               [] k = "fetched_at"   -> fetched_at
               [] k = "api_last"     -> API_LAST
               [] k = "column_key"   -> None]
    IN  Dict(RowKeys,
             [base EXCEPT !["column_key"] =
                 Or(base["category"], "Uncategorized") \o " | "
                 \o Or(base["market_name"], "Unknown Market") \o " | "
                 \o Or(base["outcome_name"], "Outcome")])

SnapshotRows(snapshot, fetched_at) ==
    [i \in 1..Len(snapshot) |-> OutcomeRow(snapshot[i], fetched_at)]

-----------------------------------------------------------------------------
(* The persisted tables                                                    *)

\* A table file is its optional first text line, its header line and its
\* record lines, every CSV line being the list of its cells; exists is
\* path.exists() and path.stat().st_size > 0.
NoFile == [exists |-> FALSE, comment |-> None, header |-> <<>>, records |-> <<>>]

File(comment, header, records) ==
    [exists |-> TRUE, comment |-> comment, header |-> header, records |-> records]

\* csv.writer: None is written as the empty string, anything else as str(v)
Str(v) == IF v = None THEN "" ELSE v

\* the CSV lines behind the position the readers reach after readline()
\* and the optional seek(0)
CsvLines(file) ==
    IF file.comment # None /\ ~startswith(file.comment, "#")
    THEN <<<<file.comment>>, file.header>> \o file.records
    ELSE <<file.header>> \o file.records

\* f"# Match: {home} vs {away} (event {event_id})"
MatchLine(rws, event_id) ==
    "# Match: " \o rws[1].val["home_team"] \o " vs " \o rws[1].val["away_team"]
    \o " (event " \o event_id \o ")"

-----------------------------------------------------------------------------
(* _append_long_csv                                                        *)

\* a record line as csv.DictReader returns it: cells beyond the header are
\* dropped (key None is popped), missing cells are None
DictRow(header, cells) ==
    Dict(header,
         [h \in Range(header) |->
             LET i == CHOOSE k \in 1..Len(header) : header[k] = h
             IN  IF i <= Len(cells) THEN cells[i] ELSE None])

\* AnyValue that asks for every value
AnyValue_All(row) ==
    \A h \in Range(row.keys) : row.val[h] # None /\ row.val[h] # ""

\* any(row.values())
AnyValue(row) ==
    \E h \in Range(row.keys) : row.val[h] # None /\ row.val[h] # ""

\* existing_headers and existing_rows after the read of the long file
ReadLong(file) ==
    IF ~file.exists THEN [headers |-> <<>>, rows |-> <<>>]
    ELSE LET lines == CsvLines(file)
             hdr   == lines[1]
             body  == SelectList(SubSeq(lines, 2, Len(lines)),
                                 LAMBDA cells : cells # <<>>)
             dicts == [i \in 1..Len(body) |-> DictRow(hdr, body[i])]
         IN  [headers |-> hdr, rows |-> SelectList(dicts, AnyValue)]

\* LongHeaders that puts the fields of the new rows first
LongHeaders_NewFirst(existing_headers, first_keys) ==
    first_keys \o SelectList(existing_headers, LAMBDA h : ~InList(h, first_keys))

\* the header list built from existing_headers and rows[0].keys()
LongHeaders(existing_headers, first_keys) ==
    LET start == IF existing_headers # <<>> THEN existing_headers ELSE first_keys
    IN  start \o SelectList(first_keys, LAMBDA h : ~InList(h, start))

\* the line csv.DictWriter writes for {k: v for k, v in r.items() if k in headers}
WrittenRecord(headers, r) ==
    [i \in 1..Len(headers) |->
        IF InList(headers[i], r.keys) THEN Str(r.val[headers[i]]) ELSE ""]

\* _append_long_csv that leaves out the new rows the file already holds
AppendLongCsv_Dedup(file, rws, event_id) ==
    IF rws = <<>> THEN file
    ELSE LET old     == ReadLong(file)
             headers == LongHeaders(old.headers, rws[1].keys)
             kept    == [i \in 1..Len(old.rows) |-> WrittenRecord(headers, old.rows[i])]
             fresh   == SelectList([i \in 1..Len(rws) |-> WrittenRecord(headers, rws[i])],
                                   LAMBDA rec : ~InList(rec, kept))
         IN  File(MatchLine(rws, event_id), headers, kept \o fresh)

\* the file after _append_long_csv(path, rws, event_id)
AppendLongCsv(file, rws, event_id) ==
    IF rws = <<>> THEN file
    ELSE LET old     == ReadLong(file)
             headers == LongHeaders(old.headers, rws[1].keys)
         IN  File(MatchLine(rws, event_id), headers,
                  [i \in 1..Len(old.rows) |-> WrittenRecord(headers, old.rows[i])]
                  \o [i \in 1..Len(rws) |-> WrittenRecord(headers, rws[i])])

-----------------------------------------------------------------------------
(* pivot_outcomes_wide and _append_wide_csv                                *)

\* row_map[col] that keeps the price of the first row with that key
LastPrice_First(rws, col) ==
    LET hits == { i \in 1..Len(rws) : rws[i].val["column_key"] = col }
    IN  rws[CHOOSE i \in hits : \A j \in hits : i <= j].val["price"]

\* row_map[col] after the loop: the price of the last row with that key
LastPrice(rws, col) ==
    LET hits == { i \in 1..Len(rws) : rws[i].val["column_key"] = col }
    IN  rws[CHOOSE i \in hits : \A j \in hits : j <= i].val["price"]

\* pivot_outcomes_wide that emits one data row per outcome row
PivotOutcomesWide_RowPerOutcome(rws) ==
    IF rws = <<>> THEN [headers |-> <<>>, data |-> <<>>]
    ELSE [headers |-> <<"fetched_at", rws[1].val["column_key"]>>,
          data |-> [i \in 1..Len(rws) |->
                       <<rws[i].val["fetched_at"], rws[i].val["price"]>>]]

PivotOutcomesWide(rws) ==
    IF rws = <<>> THEN [headers |-> <<>>, data |-> <<>>]
    ELSE LET fetch_time == rws[1].val["fetched_at"]
             cols == SortedList(SetToList({ rws[i].val["column_key"] : i \in 1..Len(rws) }),
                                StrLess)
         IN  [headers |-> <<"fetched_at">> \o cols,
              data |-> << <<fetch_time>> \o [k \in 1..Len(cols) |-> LastPrice(rws, cols[k])] >>]

\* ReadWide that forgets the header it read
ReadWide_HeaderLost(file) ==
    IF ~file.exists THEN [headers |-> <<>>, data |-> <<>>]
    ELSE LET lines == CsvLines(file)
         IN  [headers |-> <<>>, data |-> SubSeq(lines, 2, Len(lines))]

\* existing_headers and existing_data after the read of the wide file
ReadWide(file) ==
    IF ~file.exists THEN [headers |-> <<>>, data |-> <<>>]
    ELSE LET lines == CsvLines(file)
         IN  [headers |-> lines[1], data |-> SubSeq(lines, 2, Len(lines))]

\* WideHeaders that puts the columns of the new snapshot first
WideHeaders_NewFirst(existing_headers, new_headers) ==
    new_headers \o SelectList(existing_headers, LAMBDA h : ~InList(h, new_headers))

\* existing header first, then the new columns not yet present
WideHeaders(existing_headers, new_headers) ==
    LET f[i \in 0..Len(new_headers)] ==
            IF i = 0 THEN existing_headers
            ELSE IF InList(new_headers[i], f[i - 1]) THEN f[i - 1]
            ELSE Append(f[i - 1], new_headers[i])
    IN  f[Len(new_headers)]

\* pad_row that copies the new row cell by cell
pad_row_Positional(row, new_headers, header_ref) ==
    [k \in 1..Len(header_ref) |-> IF k <= Len(row) THEN Str(row[k]) ELSE ""]

\* pad_row: row is keyed by new_headers, the result by header_ref
pad_row(row, new_headers, header_ref) ==
    [k \in 1..Len(header_ref) |->
        LET hits == { i \in 1..Len(new_headers) : new_headers[i] = header_ref[k] }
        IN  IF hits = {} THEN ""
            ELSE LET i == CHOOSE m \in hits : \A j \in hits : j <= m
                 IN  IF i <= Len(row) THEN Str(row[i]) ELSE ""]

\* an existing row written back as it was read
RealignedRow_AsRead(r, existing_headers, headers) == r

\* an existing row re-aligned to the merged header
RealignedRow(r, existing_headers, headers) ==
    [k \in 1..Len(headers) |->
        LET hits == { i \in 1..Len(existing_headers) : existing_headers[i] = headers[k] }
        IN  IF hits = {} THEN ""
            ELSE LET i == CHOOSE m \in hits : \A j \in hits : j <= m
                 IN  IF i <= Len(r) THEN r[i] ELSE ""]

\* _append_wide_csv that opens the file for writing before the early return
AppendWideCsv_OpenedFirst(file, w, rws, event_id) ==
    IF rws = <<>> \/ w.headers = <<>> THEN NoFile
    ELSE LET old     == ReadWide(file)
             headers == WideHeaders(old.headers, w.headers)
             merged_existing ==
                 IF old.data # <<>> /\ old.headers # <<>>
                 THEN [i \in 1..Len(old.data) |->
                          RealignedRow(old.data[i], old.headers, headers)]
                 ELSE <<>>
             merged_new ==
                 [i \in 1..Len(w.data) |-> pad_row(w.data[i], w.headers, headers)]
         IN  File(MatchLine(rws, event_id), headers, merged_existing \o merged_new)

\* the file after _append_wide_csv(path, w, rws, event_id)
AppendWideCsv(file, w, rws, event_id) ==
    IF rws = <<>> \/ w.headers = <<>> THEN file
    ELSE LET old     == ReadWide(file)
             headers == WideHeaders(old.headers, w.headers)
             merged_existing ==
                 IF old.data # <<>> /\ old.headers # <<>>
                 THEN [i \in 1..Len(old.data) |->
                          RealignedRow(old.data[i], old.headers, headers)]
                 ELSE <<>>
             merged_new ==
                 [i \in 1..Len(w.data) |-> pad_row(w.data[i], w.headers, headers)]
         IN  File(MatchLine(rws, event_id), headers, merged_existing \o merged_new)

-----------------------------------------------------------------------------
(* The polling runs of fetch_special_markets.main                          *)

\* long tables found on disk at the first run: none, or one written under an
\* earlier field list and without the match line
LegacyHeader == <<"fetched_at", "category", "price", "source">>

LegacyRecords == << <<"2025-11-04T09:00:00+00:00", "Match Odds", "2.0", "api">> >>

InitialLongFiles ==
    { NoFile, File(None, LegacyHeader, LegacyRecords) }

-----------------------------------------------------------------------------
(* extract_odds_columns: the documents given to it                         *)

\* a dict written key by key
Obj(keys, values) ==
    JDict(keys, [key \in Range(keys) |->
                    values[CHOOSE i \in 1..Len(keys) : keys[i] = key]])

\* one history entry [timestamp, odds]
Entry(ts, odds) == JList(<<ts, odds>>)

HomeArray == JList(<<Entry(100, "1.5"), Entry(200, "1.6")>>)

DrawArray == JList(<<Entry(100, "3.2")>>)

AwayArray == JList(<<Entry(200, "5.0")>>)

\* moneyline families: complete; with a sub-key the branch does not know;
\* with a sub-key that holds no array
MoneylineChoices ==
    { Obj(<<"home", "draw", "away">>, <<HomeArray, DrawArray, AwayArray>>),
      Obj(<<"away", "extra", "home">>, <<AwayArray, DrawArray, HomeArray>>),
      Obj(<<"home", "draw">>, <<HomeArray, JNull>>) }

\* spreads families: two handicaps; a handicap with an unknown side and a
\* handicap that is no dict
SpreadsChoices ==
    { Obj(<<"-0.5", "1">>,
          <<Obj(<<"home", "away">>, <<HomeArray, AwayArray>>),
            Obj(<<"away", "home">>, <<AwayArray, HomeArray>>)>>),
      Obj(<<"0.0", "note">>,
          <<Obj(<<"home", "draw">>, <<HomeArray, DrawArray>>), JNull>>) }

TotalsChoices ==
    { Obj(<<"2.5">>, <<Obj(<<"over", "under">>, <<HomeArray, AwayArray>>)>>),
      Obj(<<"10.5", "2.5">>,
          <<Obj(<<"under">>, <<AwayArray>>), Obj(<<"over">>, <<JNull>>)>>) }

\* other families, each with its key: direct arrays beside a scalar; a family
\* that is no dict; a family whose sub-keys hold dicts
OtherChoices ==
    { <<"corners", Obj(<<"home", "away", "count">>, <<HomeArray, AwayArray, JNull>>)>>,
      <<"meta", JNull>>,
      <<"team_total", Obj(<<"home">>, <<Obj(<<"over">>, <<HomeArray>>)>>)>> }

\* a history section from the families present, in the given key order
History(families) ==
    JDict([i \in 1..Len(families) |-> families[i][1]],
          [key \in { families[i][1] : i \in 1..Len(families) } |->
              families[CHOOSE i \in 1..Len(families) : families[i][1] = key][2]])

Reversed(l) == [i \in 1..Len(l) |-> l[Len(l) + 1 - i]]

\* every history over at most one family of each kind, in both key orders;
\* the history without any family is the empty dict
Histories ==
    LET Opt(key, choices) == { <<>> } \cup { << <<key, c>> >> : c \in choices }
        lists == { m \o sp \o t \o o :
                     m \in Opt("moneyline", MoneylineChoices),
                     sp \in Opt("spreads", SpreadsChoices),
                     t \in Opt("totals", TotalsChoices),
                     o \in { <<>> } \cup { <<c>> : c \in OtherChoices } }
    IN  { History(l) : l \in lists } \cup { History(Reversed(l)) : l \in lists }

MoneylineHistory ==
    History(<< <<"moneyline", Obj(<<"home">>, <<HomeArray>>)>> >>)

TotalsHistory ==
    History(<< <<"totals", Obj(<<"2.5">>, <<Obj(<<"over">>, <<HomeArray>>)>>)>> >>)

Period(history) == Obj(<<"line_id", "history">>, <<JNull, history>>)

\* periods without a usable history: no history key, an empty one, null
BarePeriods ==
    { Obj(<<"line_id">>, <<JNull>>), Period(Obj(<<>>, <<>>)), Period(JNull) }

Event(periods) == Obj(<<"event_id", "periods">>, <<JNull, periods>>)

\* first events: without periods, with no period, with one period over every
\* history, with a bare period before or after a period holding a history,
\* with two bare periods, with two periods holding different histories
Events ==
    { Obj(<<"event_id">>, <<JNull>>), Event(Obj(<<>>, <<>>)) }
    \cup { Event(Obj(<<"num_0">>, <<Period(h)>>)) : h \in Histories }
    \cup { Event(Obj(<<"num_0", "num_1">>, <<bare, Period(h)>>)) :
              bare \in BarePeriods, h \in {MoneylineHistory, TotalsHistory} }
    \cup { Event(Obj(<<"num_0", "num_1">>, <<Period(h), bare>>)) :
              bare \in BarePeriods, h \in {MoneylineHistory, TotalsHistory} }
    \cup { Event(Obj(<<"num_0", "num_1">>, <<b0, b1>>)) :
              b0 \in BarePeriods, b1 \in BarePeriods }
    \cup { Event(Obj(<<"num_0", "num_1">>,
                     <<Period(MoneylineHistory), Period(TotalsHistory)>>)),
           Event(Obj(<<"num_1", "num_0">>,
                     <<Period(TotalsHistory), Period(MoneylineHistory)>>)) }

\* the items an outcome array can hold: entries, one of them repeating a
\* timestamp, an entry of three cells, lists of one cell and a null
Items ==
    { Entry(100, "1.5"), Entry(100, "1.6"), Entry(200, "1.6"),
      JList(<<200, "1.7", "9.9">>), JList(<<100>>), JList(<<300>>), JNull }

\* one event, one period, the moneyline home array over every list of at
\* most MaxItems items
ArrayDocuments ==
    { Obj(<<"events">>,
          <<JList(<<Event(Obj(<<"num_0">>,
                <<Period(History(<< <<"moneyline",
                     Obj(<<"home">>, <<JList(items)>>)>> >>))>>))>>)>>) :
        items \in UNION { [1..n -> Items] : n \in 0..MaxItems } }

\* the documents: without the events key, with no event, with one event,
\* with a second event that holds a history
Documents ==
    { Obj(<<"sport_id">>, <<JNull>>), Obj(<<"events">>, <<JList(<<>>)>>) }
    \cup { Obj(<<"sport_id", "events">>, <<JNull, JList(<<e>>)>>) : e \in Events }
    \cup { Obj(<<"events">>,
               <<JList(<<e, Event(Obj(<<"num_0">>, <<Period(TotalsHistory)>>))>>)>>) :
              e \in Events }
    \cup ArrayDocuments

NotExtracted ==
    [error |-> None, period_key |-> None,
     columns |-> Dict(<<>>, <<>>), all_timestamps |-> {}]

\* The output table of a run and its fill report (the table path followed
\* by .fill_report.txt): path is the output_file argument, None for
\* stdout; a file is missing, old (left by an earlier run), empty (just
\* opened for writing) or new (written by this run).
NoOutput == [path |-> None, table |-> "missing", report |-> "missing"]

OutputFiles ==
    { NoOutput }
    \cup { [path |-> "out.csv", table |-> t, report |-> t] : t \in {"missing", "old"} }

ExtractIdle ==
    /\ extract_pc = "idle"
    /\ json_data = JNull
    /\ extracted = NotExtracted
    /\ out_files = NoOutput
    /\ out_before = NoOutput

RaceIdle ==
    /\ race_pc = <<>>
    /\ race_kind = "none"
    /\ race_rows = <<>>
    /\ race_seen = <<>>
    /\ race_start = NoFile
    /\ disk = NoFile
    /\ disk_tail = 0
    /\ race_log = <<>>

FlattenIdle ==
    /\ flatten_pc = "idle"
    /\ specials = <<>>
    /\ flat_rows = <<>>

ReplayIdle ==
    /\ replay_pc = "idle"
    /\ snap_a = [rows |-> <<>>, fields |-> <<>>]
    /\ snap_b = [rows |-> <<>>, fields |-> <<>>]
    /\ tables = <<>>

AppendIdle ==
    /\ fetch_pc = "idle"
    /\ run = 0
    /\ rows = <<>>
    /\ wide = [headers |-> <<>>, data |-> <<>>]
    /\ long_csv = NoFile
    /\ wide_csv = NoFile
    /\ fetched = <<>>

\* main up to the flattened rows: one fetch of the specials payload
Fetch ==
    /\ fetch_pc = "fetch"
    /\ run < MaxRuns
    /\ \E snapshot \in Snapshots :
         /\ rows' = SnapshotRows(snapshot, FetchTime(run + 1))
         /\ fetched' = Append(fetched, SnapshotRows(snapshot, FetchTime(run + 1)))
    /\ run' = run + 1
    /\ fetch_pc' = "append_long"
    /\ UNCHANGED <<wide, long_csv, wide_csv, outsideAppend>>

AppendLong ==
    /\ fetch_pc = "append_long"
    /\ long_csv' = AppendLongCsv(long_csv, rows, EVENT_ID)
    /\ fetch_pc' = "pivot"
    /\ UNCHANGED <<run, rows, wide, wide_csv, fetched, outsideAppend>>

Pivot ==
    /\ fetch_pc = "pivot"
    /\ wide' = PivotOutcomesWide(rows)
    /\ fetch_pc' = "append_wide"
    /\ UNCHANGED <<run, rows, long_csv, wide_csv, fetched, outsideAppend>>

AppendWide ==
    /\ fetch_pc = "append_wide"
    /\ wide_csv' = AppendWideCsv(wide_csv, wide, rows, EVENT_ID)
    /\ fetch_pc' = "fetch"
    /\ UNCHANGED <<run, rows, wide, long_csv, fetched, outsideAppend>>

NextAppend ==
    \/ Fetch
    \/ AppendLong
    \/ Pivot
    \/ AppendWide

-----------------------------------------------------------------------------
(* The alignment run: output_columns calling filter_and_fill_data          *)

AlignInputs(cols, threshold) ==
    /\ columns = cols
    /\ all_timestamps = AllTimestamps(cols)
    /\ min_values_per_row = threshold

AlignIdle ==
    /\ pc = "idle"
    /\ AlignInputs(Dict(<<>>, <<>>), 20)
    /\ column_names = <<>>
    /\ sorted_timestamps = <<>>
    /\ initial_data = <<>>
    /\ filtered_data = <<>>
    /\ filtered_timestamps = <<>>
    /\ fill_report = EmptyReport
    /\ col_idx = 0
    /\ fills_in_column = <<>>
    /\ output = <<>>

Init ==
    /\ pc = "output_columns"
    /\ \/ \E E \in SUBSET ((1..3) \X Timestamps) :
            /\ Cardinality(E) <= MaxEntries
            /\ \E v \in [E -> Odds], t \in Thresholds :
                 AlignInputs(SeriesColumns(E, v), t)
       \/ \E l \in NameLists : AlignInputs(NamedColumns(l), 0)
       \/ AlignInputs(Scenario1Columns, 0)
       \/ AlignInputs(Scenario2Columns, 20)
    /\ column_names = <<>>
    /\ sorted_timestamps = <<>>
    /\ initial_data = <<>>
    /\ filtered_data = <<>>
    /\ filtered_timestamps = <<>>
    /\ fill_report = EmptyReport
    /\ col_idx = 0
    /\ fills_in_column = <<>>
    /\ output = <<>>
    /\ AppendIdle
    /\ ReplayIdle
    /\ ExtractIdle
    /\ FlattenIdle
    /\ RaceIdle

\* output_columns up to the call of filter_and_fill_data
BuildColumnNames ==
    /\ pc = "output_columns"
    /\ column_names' = ColumnNames(columns)
    /\ pc' = "filter"
    /\ UNCHANGED <<columns, all_timestamps, min_values_per_row,
                   sorted_timestamps, initial_data, filtered_data,
                   filtered_timestamps, fill_report, col_idx, fills_in_column,
                   output, outsideAlign>>

\* filter_and_fill_data up to the fill loop: sort, build the matrix, count,
\* filter
FilterRows ==
    /\ pc = "filter"
    /\ LET stamps == SortedList(SetToList(all_timestamps), IntLess)
           data   == InitialData(columns, column_names, stamps)
           kept   == KeptIndices(data, min_values_per_row)
           gone   == RemovedIndices(data, min_values_per_row)
       IN  /\ sorted_timestamps' = stamps
           /\ initial_data' = data
           /\ filtered_data' = [k \in 1..Len(kept) |-> data[kept[k]]]
           /\ filtered_timestamps' = [k \in 1..Len(kept) |-> data[kept[k]][1]]
           /\ fill_report' = [EmptyReport EXCEPT !.removed_rows =
                                 [k \in 1..Len(gone) |-> RemovedRecord(data, gone[k])]]
    /\ col_idx' = 1
    /\ fills_in_column' = <<>>
    /\ pc' = IF Len(column_names) > 1 THEN "forward_fill" ELSE "done"
    /\ UNCHANGED <<columns, all_timestamps, min_values_per_row, column_names,
                   output, outsideAlign>>

\* the forward-fill loop of the column col_idx
ForwardFill ==
    /\ pc = "forward_fill"
    /\ LET st == ForwardFilled(filtered_data, fill_report, col_idx + 1,
                               column_names[col_idx + 1])
       IN  /\ filtered_data' = st.data
           /\ fills_in_column' = st.fills
           /\ fill_report' = [fill_report EXCEPT !.total_filled = st.total,
                                                 !.by_row = st.by_row]
    /\ pc' = "backward_fill"
    /\ UNCHANGED <<columns, all_timestamps, min_values_per_row, column_names,
                   sorted_timestamps, initial_data, filtered_timestamps, col_idx,
                   output, outsideAlign>>

\* the backward fill of the column col_idx and the end of its iteration
BackwardFill ==
    /\ pc = "backward_fill"
    /\ LET name == column_names[col_idx + 1]
           st == BackwardFilled(filtered_data, fill_report, fills_in_column,
                                col_idx + 1, name)
       IN  /\ filtered_data' = st.data
           /\ fill_report' = [fill_report EXCEPT
                                !.total_filled = st.total,
                                !.by_row = st.by_row,
                                !.by_column = (name :> st.fills) @@ @]
    /\ fills_in_column' = <<>>
    /\ col_idx' = col_idx + 1
    /\ pc' = IF col_idx + 1 < Len(column_names) THEN "forward_fill" ELSE "done"
    /\ UNCHANGED <<columns, all_timestamps, min_values_per_row, column_names,
                   sorted_timestamps, initial_data, filtered_timestamps,
                   output, outsideAlign>>

\* the header and one line per row of filtered_data, written to the table
WriteOutput ==
    /\ pc = "done"
    /\ output' = <<join(",", column_names)>>
                  \o [r \in 1..Len(filtered_data) |-> OutputRow(filtered_data[r])]
    /\ pc' = "written"
    /\ UNCHANGED <<columns, all_timestamps, min_values_per_row, column_names,
                   sorted_timestamps, initial_data, filtered_data,
                   filtered_timestamps, fill_report, col_idx, fills_in_column,
                   outsideAlign>>

Next ==
    \/ BuildColumnNames
    \/ FilterRows
    \/ ForwardFill
    \/ BackwardFill
    \/ WriteOutput

Spec == Init /\ [][Next]_vars

InitAppend ==
    /\ AlignIdle
    /\ ReplayIdle
    /\ ExtractIdle
    /\ FlattenIdle
    /\ RaceIdle
    /\ fetch_pc = "fetch"
    /\ run = 0
    /\ rows = <<>>
    /\ wide = [headers |-> <<>>, data |-> <<>>]
    /\ long_csv \in InitialLongFiles
    /\ wide_csv = NoFile
    /\ fetched = <<>>

SpecAppend == InitAppend /\ [][NextAppend]_vars

-----------------------------------------------------------------------------
(* main of extract_odds_columns.py up to the return of the extraction      *)

InitExtract ==
    /\ AlignIdle
    /\ AppendIdle
    /\ ReplayIdle
    /\ FlattenIdle
    /\ RaceIdle
    /\ extract_pc = "extract"
    /\ json_data \in Documents
    /\ extracted = NotExtracted
    /\ out_files \in OutputFiles
    /\ out_before = out_files

\* extract_odds_columns returns columns and all_timestamps to main
ExtractReturns ==
    /\ extract_pc = "extract"
    /\ ExtractOddsColumns(json_data).error = None
    /\ extracted' = ExtractOddsColumns(json_data)
    /\ extract_pc' = "returned"
    /\ UNCHANGED <<json_data, out_files, out_before, outsideExtract>>

\* main that has opened the output table before the extraction raises
ExitOnError_Opened(files) ==
    IF files.path = None THEN files ELSE [files EXCEPT !.table = "empty"]

\* the files after except Exception: print the error, sys.exit(1)
ExitOnError(files) == files

\* extract_odds_columns raises; main reports the error and exits
ExtractRaises ==
    /\ extract_pc = "extract"
    /\ ExtractOddsColumns(json_data).error # None
    /\ extracted' = ExtractOddsColumns(json_data)
    /\ out_files' = ExitOnError(out_files)
    /\ extract_pc' = "failed"
    /\ UNCHANGED <<json_data, out_before, outsideExtract>>

\* output_columns is entered: open(output_file, 'w') when a path is given
OpenOutput ==
    /\ extract_pc = "returned"
    /\ out_files' = IF out_files.path = None THEN out_files
                    ELSE [out_files EXCEPT !.table = "empty"]
    /\ extract_pc' = "opened"
    /\ UNCHANGED <<json_data, extracted, out_before, outsideExtract>>

\* generate_fill_report writes the report beside the table
WriteReport ==
    /\ extract_pc = "opened"
    /\ out_files' = IF out_files.path = None THEN out_files
                    ELSE [out_files EXCEPT !.report = "new"]
    /\ extract_pc' = "reported"
    /\ UNCHANGED <<json_data, extracted, out_before, outsideExtract>>

\* the header and the rows are written and the table is closed
WriteTable ==
    /\ extract_pc = "reported"
    /\ out_files' = IF out_files.path = None THEN out_files
                    ELSE [out_files EXCEPT !.table = "new"]
    /\ extract_pc' = "written"
    /\ UNCHANGED <<json_data, extracted, out_before, outsideExtract>>

NextExtract ==
    \/ ExtractReturns
    \/ ExtractRaises
    \/ OpenOutput
    \/ WriteReport
    \/ WriteTable

SpecExtract == InitExtract /\ [][NextExtract]_vars

-----------------------------------------------------------------------------
(* Two snapshots appended in both orders, one snapshot appended twice      *)

\* the keys of a row as specials_to_rows returns it, before main adds its
\* three
FlatKeys == SubSeq(RowKeys, 1, 16)

\* the rows handed to _append_long_csv under a field list
WithFields(rws, fields) ==
    [i \in 1..Len(rws) |->
        Dict(fields, [k \in Range(fields) |-> rws[i].val[k]])]

\* wide tables found on disk: none, or the table an earlier run left
InitialWideFiles ==
    LET earlier == SnapshotRows(<<CHOOSE o \in Outcomes : o.special_id = "102">>,
                                FetchTime(0))
    IN  { NoFile,
          AppendWideCsv(NoFile, PivotOutcomesWide(earlier), earlier, EVENT_ID) }

\* one run of main over both tables: _append_long_csv, pivot_outcomes_wide,
\* _append_wide_csv
AppendBoth(t, snap) ==
    [long |-> AppendLongCsv(t.long, WithFields(snap.rows, snap.fields), EVENT_ID),
     wide |-> AppendWideCsv(t.wide, PivotOutcomesWide(snap.rows), snap.rows,
                            EVENT_ID)]

Orders == {"ab", "ba", "aa"}

\* the snapshot appended first and second in each order
FirstOf(order) == IF order = "ba" THEN snap_b ELSE snap_a

SecondOf(order) == IF order = "ab" THEN snap_b ELSE snap_a

InitReplay ==
    /\ AlignIdle
    /\ AppendIdle
    /\ ExtractIdle
    /\ FlattenIdle
    /\ RaceIdle
    /\ replay_pc = "first"
    /\ \E A \in Snapshots, fields \in {RowKeys, FlatKeys} :
          snap_a = [rows |-> SnapshotRows(A, FetchTime(1)), fields |-> fields]
    /\ \E B \in Snapshots, fields \in {RowKeys, FlatKeys} :
          snap_b = [rows |-> SnapshotRows(B, FetchTime(2)), fields |-> fields]
    /\ \E l \in InitialLongFiles, w \in InitialWideFiles :
          tables = [order \in Orders |-> [long |-> l, wide |-> w]]

AppendFirst ==
    /\ replay_pc = "first"
    /\ tables' = [order \in Orders |-> AppendBoth(tables[order], FirstOf(order))]
    /\ replay_pc' = "second"
    /\ UNCHANGED <<snap_a, snap_b, outsideReplay>>

AppendSecond ==
    /\ replay_pc = "second"
    /\ tables' = [order \in Orders |-> AppendBoth(tables[order], SecondOf(order))]
    /\ replay_pc' = "done"
    /\ UNCHANGED <<snap_a, snap_b, outsideReplay>>

NextReplay ==
    \/ AppendFirst
    \/ AppendSecond

SpecReplay == InitReplay /\ [][NextReplay]_vars

-----------------------------------------------------------------------------
(* Two invocations appending to one table at the same time                 *)

\* The appenders take no lock.  Each invocation reads the table (lines
\* 218-233, 275-284), merges in memory, opens the path for writing, which
\* truncates the file (lines 246, 306), and writes the merged table; a table
\* of this size is held in the writer's buffer and reaches the file in one
\* write at offset 0 when the with block closes it.  A write over a file
\* that meanwhile holds more bytes leaves the bytes behind its end in place.
Writers == {1, 2}

\* bytes of one CSV line: the cells, the commas, the line terminator CR LF
LineSize(cells) ==
    LET f[k \in 0..Len(cells)] == IF k = 0 THEN 0 ELSE f[k - 1] + Len(cells[k])
    IN  f[Len(cells)] + (Len(cells) - 1) + 2

\* path.stat().st_size of a whole table; no modelled cell needs quoting
FileSize(file) ==
    IF ~file.exists THEN 0
    ELSE LET f[i \in 0..Len(file.records)] ==
                 IF i = 0 THEN 0 ELSE f[i - 1] + LineSize(file.records[i])
         IN  (IF file.comment = None THEN 0 ELSE Len(file.comment) + 1)
             + LineSize(file.header) + f[Len(file.records)]

\* a reader that finds nothing
SeenFile_Nothing(file) == NoFile

\* what the read phase finds: a file of size 0 counts as no file
SeenFile(file) == IF FileSize(file) = 0 THEN NoFile ELSE file

\* the table an invocation writes, from the table it read and its own rows
Rewrite(kind, seen, rws) ==
    IF kind = "long" THEN AppendLongCsv(seen, rws, EVENT_ID)
    ELSE AppendWideCsv(seen, PivotOutcomesWide(rws), rws, EVENT_ID)

InitRace ==
    /\ AlignIdle
    /\ AppendIdle
    /\ ReplayIdle
    /\ ExtractIdle
    /\ FlattenIdle
    /\ race_pc = [w \in Writers |-> "read"]
    /\ \E kind \in {"long", "wide"} :
          /\ race_kind = kind
          /\ race_start \in (IF kind = "long" THEN InitialLongFiles
                                              ELSE InitialWideFiles)
    /\ \E s1 \in Snapshots, s2 \in { s \in Snapshots : Len(s) <= 1 } :
          race_rows = [w \in Writers |->
                         SnapshotRows(IF w = 1 THEN s1 ELSE s2, FetchTime(w))]
    /\ race_seen = [w \in Writers |-> NoFile]
    /\ disk = race_start
    /\ disk_tail = 0
    /\ race_log = <<>>

\* if not rows: return
RaceSkip(w) ==
    /\ race_pc[w] = "read"
    /\ race_rows[w] = <<>>
    /\ race_pc' = [race_pc EXCEPT ![w] = "done"]
    /\ race_log' = Append(race_log, <<w, "skip">>)
    /\ UNCHANGED <<race_kind, race_rows, race_seen, race_start, disk, disk_tail,
                   outsideRace>>

\* the read phase
RaceRead(w) ==
    /\ race_pc[w] = "read"
    /\ race_rows[w] # <<>>
    /\ race_seen' = [race_seen EXCEPT ![w] = SeenFile(disk)]
    /\ race_pc' = [race_pc EXCEPT ![w] = "open"]
    /\ race_log' = Append(race_log, <<w, "read">>)
    /\ UNCHANGED <<race_kind, race_rows, race_start, disk, disk_tail, outsideRace>>

\* path.open("w"): the file is truncated
RaceOpen(w) ==
    /\ race_pc[w] = "open"
    /\ disk' = NoFile
    /\ disk_tail' = 0
    /\ race_pc' = [race_pc EXCEPT ![w] = "write"]
    /\ race_log' = Append(race_log, <<w, "open">>)
    /\ UNCHANGED <<race_kind, race_rows, race_seen, race_start, outsideRace>>

\* the with block ends: the merged table goes to the file from offset 0
RaceWrite(w) ==
    /\ race_pc[w] = "write"
    /\ LET content == Rewrite(race_kind, race_seen[w], race_rows[w])
           held    == FileSize(disk) + disk_tail
       IN  /\ disk' = content
           /\ disk_tail' = IF held > FileSize(content)
                           THEN held - FileSize(content) ELSE 0
    /\ race_pc' = [race_pc EXCEPT ![w] = "done"]
    /\ race_log' = Append(race_log, <<w, "write">>)
    /\ UNCHANGED <<race_kind, race_rows, race_seen, race_start, outsideRace>>

\* what can raise inside an append: the read of the existing file, the
\* merge of the header, the build of the rows to write, the writes
Causes == {"read", "header", "rows", "write"}

\* an append that merges the header inside the with block of the write
FailurePoint_HeaderInWrite(kind, cause) ==
    CASE cause = "read"   -> "read"
      [] cause = "header" -> "write"
      [] cause = "rows"   -> IF kind = "wide" THEN "read" ELSE "write"
      [] cause = "write"  -> "write"

\* where the statement that raises stands: before path.open("w") (the
\* invocation is still at read) or inside its with block (at write).  The
\* wide form builds merged_existing and merged_new before the open, the
\* long form builds its row dicts in the writerows calls after it.
FailurePoint(kind, cause) ==
    CASE cause = "read"   -> "read"
      [] cause = "header" -> "read"
      [] cause = "rows"   -> IF kind = "wide" THEN "read" ELSE "write"
      [] cause = "write"  -> "write"

\* how many records of the table being written are in the file when the
\* with block is left by an exception: none or the existing ones when a
\* row build raises, any number short of all when a write raises
RecordsFlushed(cause, content, rws) ==
    IF cause = "rows"
    THEN {0, Len(content.records) - Len(rws)}
    ELSE 0..(Len(content.records) - 1)

\* an exception leaves the append; after the open the file keeps the match
\* line, the header and the records flushed so far
RaceFail(w, cause) ==
    /\ race_rows[w] # <<>>
    /\ race_pc[w] = FailurePoint(race_kind, cause)
    /\ IF race_pc[w] = "write"
       THEN LET content == Rewrite(race_kind, race_seen[w], race_rows[w])
                held    == FileSize(disk) + disk_tail
            IN  \E k \in RecordsFlushed(cause, content, race_rows[w]) :
                   LET part == [content EXCEPT !.records = SubSeq(@, 1, k)]
                   IN  /\ disk' = part
                       /\ disk_tail' = IF held > FileSize(part)
                                       THEN held - FileSize(part) ELSE 0
       ELSE UNCHANGED <<disk, disk_tail>>
    /\ race_pc' = [race_pc EXCEPT ![w] = "failed"]
    /\ race_log' = Append(race_log, <<w, "fail " \o cause>>)
    /\ UNCHANGED <<race_kind, race_rows, race_seen, race_start, outsideRace>>

NextRace ==
    \E w \in Writers :
        \/ RaceSkip(w)
        \/ RaceRead(w)
        \/ RaceOpen(w)
        \/ RaceWrite(w)
        \/ \E cause \in Causes : RaceFail(w, cause)

SpecRace == InitRace /\ [][NextRace]_vars

-----------------------------------------------------------------------------
(* _normalize_text and specials_to_rows                                    *)

\* _normalize_text(text, home_team, away_team, category)
normalize_text(text, home_team, away_team, category) ==
    IF text = None \/ text = "" THEN ""
    ELSE LET named   == replace(replace(text, home_team, "Home"), away_team, "Away")
             cleaned == IF /\ category # None
                           /\ category # ""
                           /\ lower(category) = "team props"
                        THEN replace(replace(named, "Team Props - ", ""),
                                     "Team Props ", "")
                        ELSE named
         IN  strip(replace(cleaned, "?", ""))

\* d.get(key, default)
Get(d, key, default) == IF InList(key, d.keys) THEN d.val[key] ELSE default

\* special.get("event", {}) or {}
EventOf(special) ==
    IF special.event.null THEN Dict(<<>>, <<>>)
    ELSE Dict(special.event.keys, special.event.val)

\* LinesOf that stops after the first line of the mapping
LinesOf_FirstOnly(special) ==
    IF special.lines.missing THEN Dict(<<>>, <<>>)
    ELSE Dict(SubSeq(special.lines.keys, 1, Min(1, Len(special.lines.keys))),
              special.lines.val)

\* special.get("lines", {})
LinesOf(special) ==
    IF special.lines.missing THEN Dict(<<>>, <<>>)
    ELSE Dict(special.lines.keys, special.lines.val)

\* the rows appended for one special market
RowsOfSpecial(special) ==
    LET event     == EventOf(special)
        home_team == Get(event, "home", "Home Team")
        away_team == Get(event, "away", "Away Team")
        category  == special.category
        lines     == LinesOf(special)
    IN  [j \in 1..Len(lines.keys) |->
            LET line == lines.val[lines.keys[j]]
            IN  Dict(FlatKeys,
                     [k \in Range(FlatKeys) |->
                        CASE k = "special_id"   -> special.special_id
                          [] k = "event_id"     -> special.event_id
                          [] k = "league_id"    -> special.league_id
                          [] k = "category"     -> special.category
                          [] k = "market_name"  ->
                               normalize_text(special.name, home_team,
                                              away_team, category)
                          [] k = "bet_type"     -> special.bet_type
                          [] k = "starts"       -> special.starts
                          [] k = "cutoff"       -> special.cutoff
                          [] k = "home_team"    -> home_team
                          [] k = "away_team"    -> away_team
                          [] k = "line_id"      -> line.line_id
                          [] k = "outcome_id"   -> line.id
                          [] k = "outcome_name" ->
                               normalize_text(line.name, home_team,
                                              away_team, category)
                          [] k = "rot_num"      -> line.rot_num
                          [] k = "handicap"     -> line.handicap
                          [] k = "price"        -> line.price])]

\* specials_to_rows(specials)
SpecialsToRows(payload) ==
    Concat([i \in 1..Len(payload) |-> RowsOfSpecial(payload[i])])

\* the event blocks of a special: absent or null, the two teams, two teams
\* of which the home name is part of the away name, the home team alone
NoEvent == [null |-> TRUE, keys |-> <<>>, val |-> <<>>]

Teams(home, away) ==
    [null |-> FALSE, keys |-> <<"home", "away">>,
     val |-> [k \in {"home", "away"} |-> IF k = "home" THEN home ELSE away]]

EventBlocks ==
    { NoEvent, Teams("Barcelona", "Atletico Madrid"), Teams("Milan", "Inter Milan"),
      [null |-> FALSE, keys |-> <<"home">>, val |-> [k \in {"home"} |-> "Barcelona"]] }

\* outcome names as the API spells them
LineNames ==
    <<None, "Barcelona?", "Atletico Madrid", " Over 2.5 ",
      "Inter Milan to score?", "Milan">>

\* the n-th outcome line
Line(n) ==
    [id |-> "70" \o ToString(n), line_id |-> "900" \o ToString(n),
     name |-> LineNames[n], rot_num |-> None,
     handicap |-> IF LineNames[n] = " Over 2.5 " THEN "2.5" ELSE None,
     price |-> "1." \o ToString(n)]

NoLines == [missing |-> TRUE, keys |-> <<>>, val |-> <<>>]

\* the lines mapping over the outcome lines l, keyed by their ids
Lines(l) ==
    [missing |-> FALSE,
     keys |-> [j \in 1..Len(l) |-> Line(l[j]).id],
     val |-> [key \in { Line(l[j]).id : j \in 1..Len(l) } |->
                 Line(CHOOSE n \in Range(l) : Line(n).id = key)]]

\* the lines mappings: absent, or of at most MaxLines distinct lines
LineMappings ==
    { NoLines } \cup
    { Lines(l) : l \in { q \in UNION { [1..n -> 1..Len(LineNames)] : n \in 0..MaxLines } :
                           \A i, j \in 1..Len(q) : i # j => q[i] # q[j] } }

MarketNames ==
    { None, "Team Props - Barcelona Total Goals?", "Will Milan win?",
      "Team Props Corners" }

Categories == { None, "Team Props", "Match Odds" }

Special(special_id, event, category, name, lines) ==
    [special_id |-> special_id, event_id |-> EVENT_ID, league_id |-> "2627",
     category |-> category, name |-> name,
     bet_type |-> "MULTI_WAY_HEAD_TO_HEAD",
     starts |-> "2025-11-05T20:00:00", cutoff |-> "2025-11-05T20:00:00",
     event |-> event, lines |-> lines]

\* specials_list of one fetch: no market, one market, or a first market
\* followed by a second one
Payloads ==
    { <<>> }
    \cup { <<Special("101", e, c, n, l)>> :
              e \in EventBlocks, c \in Categories, n \in MarketNames,
              l \in LineMappings }
    \cup { <<Special("101", Teams("Milan", "Inter Milan"), "Match Odds",
                     "Will Milan win?", l),
             Special("102", e, "Team Props", "Team Props Corners", l2)>> :
              l \in LineMappings, e \in EventBlocks,
              l2 \in { NoLines, Lines(<<>>), Lines(<<2>>), Lines(<<4, 5>>) } }

InitFlatten ==
    /\ AlignIdle
    /\ AppendIdle
    /\ ReplayIdle
    /\ ExtractIdle
    /\ RaceIdle
    /\ flatten_pc = "flatten"
    /\ specials \in Payloads
    /\ flat_rows = <<>>

\* rows = specials_to_rows(specials_list)
Flatten ==
    /\ flatten_pc = "flatten"
    /\ flat_rows' = SpecialsToRows(specials)
    /\ flatten_pc' = "flattened"
    /\ UNCHANGED <<specials, outsideFlatten>>

NextFlatten == Flatten

SpecFlatten == InitFlatten /\ [][NextFlatten]_vars

-----------------------------------------------------------------------------
(* Vocabulary of the alignment properties                                  *)

Filtered == pc \in {"forward_fill", "backward_fill", "done"}

\* the row of the unfiltered matrix that became the surviving row r
OriginalRow(r) ==
    initial_data[CHOOSE i \in 1..Len(initial_data) :
                     initial_data[i][1] = filtered_timestamps[r]]

SurvivingRows == 1..Len(filtered_data)

ColumnSlots == 2..Len(column_names)

\* surviving rows that held an observed value in column slot c
ObservedRows(c) == { r \in SurvivingRows : OriginalRow(r)[c] # None }

FillRecords(c) == fill_report.by_column[column_names[c]]

HasFillRecord(c, r, v, method) ==
    \E n \in 1..Len(FillRecords(c)) :
        FillRecords(c)[n] = [row_index |-> r - 1,
                             timestamp |-> filtered_timestamps[r],
                             filled_value |-> v,
                             method |-> method]

-----------------------------------------------------------------------------
(* C1 *)

-----------------------------------------------------------------------------
(* C2 *)

-----------------------------------------------------------------------------
(* C3 *)

\* C3: the timestamp axis is strictly ascending, holds every timestamp of
\* the union exactly once (one row per timestamp, however many series hold
\* it), and the rows returned are in strictly ascending timestamp order.
C3_TimestampsAscending ==
    Filtered =>
        /\ \A i, j \in 1..Len(sorted_timestamps) :
             i < j => sorted_timestamps[i] < sorted_timestamps[j]
        /\ Range(sorted_timestamps) = all_timestamps
        /\ Len(initial_data) = Cardinality(all_timestamps)
        /\ \A t \in all_timestamps :
             Cardinality({ i \in 1..Len(initial_data) : initial_data[i][1] = t }) = 1
        /\ \A i, j \in SurvivingRows :
             i < j => filtered_data[i][1] < filtered_data[j][1]

\* two returned rows, one of them at a timestamp that two series share
C3_Witness ==
    /\ pc = "done"
    /\ Len(filtered_data) >= 2
    /\ \E t \in all_timestamps :
         Cardinality({ c \in Range(columns.keys) : t \in DOMAIN columns.val[c] }) >= 2

-----------------------------------------------------------------------------
(* C4 *)

\* C4: a surviving slot that was absent and has an earlier surviving row
\* with an observed value in its column holds the value of the most recent
\* such row, and that fill is recorded with method forward_fill; scenario 1
\* yields [100,1.5,3.2,5.0],[200,1.6,3.2,5.0].
C4_ForwardFill ==
    pc = "done" =>
        /\ \A c \in ColumnSlots : \A r \in SurvivingRows :
             LET earlier == { q \in ObservedRows(c) : q < r }
             IN  (OriginalRow(r)[c] = None /\ earlier # {}) =>
                    LET m == CHOOSE q \in earlier : \A q2 \in earlier : q2 <= q
                    IN  /\ filtered_data[r][c] = OriginalRow(m)[c]
                        /\ HasFillRecord(c, r, OriginalRow(m)[c], "forward_fill")
        /\ columns = Scenario1Columns =>
             filtered_data = << <<100, "1.5", "3.2", "5.0">>,
                                <<200, "1.6", "3.2", "5.0">> >>

\* a slot forward-filled from the later of two differing earlier values
C4_Witness ==
    /\ pc = "done"
    /\ \E c \in ColumnSlots : \E r \in SurvivingRows :
         /\ OriginalRow(r)[c] = None
         /\ \E q1, q2 \in ObservedRows(c) :
              /\ q1 < q2 /\ q2 < r
              /\ OriginalRow(q1)[c] # OriginalRow(q2)[c]
              /\ filtered_data[r][c] = OriginalRow(q2)[c]

-----------------------------------------------------------------------------
(* C5 *)

\* C5: in every column, every absent slot of a surviving row strictly
\* before the first surviving row with an observed value holds that first
\* value and is recorded with method backward_fill, and no backward_fill
\* record names a row at or after that first row.
C5_BackwardFill ==
    pc = "done" =>
        \A c \in ColumnSlots :
            /\ ObservedRows(c) # {} =>
                 LET first == CHOOSE q \in ObservedRows(c) :
                                  \A q2 \in ObservedRows(c) : q <= q2
                 IN  /\ \A r \in SurvivingRows :
                          r < first =>
                             /\ filtered_data[r][c] = OriginalRow(first)[c]
                             /\ HasFillRecord(c, r, OriginalRow(first)[c],
                                              "backward_fill")
                     /\ \A n \in 1..Len(FillRecords(c)) :
                          FillRecords(c)[n].method = "backward_fill"
                          => FillRecords(c)[n].row_index + 1 < first
            /\ ObservedRows(c) = {} =>
                 \A n \in 1..Len(FillRecords(c)) :
                     FillRecords(c)[n].method # "backward_fill"

\* a column backward-filled from a first value that differs from a later one
C5_Witness ==
    /\ pc = "done"
    /\ \E c \in ColumnSlots : \E q1, q2 \in ObservedRows(c) :
         /\ 1 < q1 /\ q1 < q2
         /\ \A q \in ObservedRows(c) : q1 <= q
         /\ OriginalRow(q1)[c] # OriginalRow(q2)[c]
         /\ filtered_data[1][c] = OriginalRow(q1)[c]

-----------------------------------------------------------------------------
(* C6 *)

\* 1 money-line, 2 spread, 3 totals, 4 any other column
HeaderGroup(name) ==
    CASE InList(name, preferred_order) -> 1
      [] startswith(name, "spread_") -> 2
      [] startswith(name, "totals_") -> 3
      [] OTHER -> 4

\* <prefix>_<number>_<side>
HasNumericLine(name) ==
    Len(split(name, "_")) >= 3 /\ float(split(name, "_")[2]).ok

LineOf(name) == float(split(name, "_")[2])

SideOf(name) == split(name, "_")[3]

\* name a comes no later than name b by (numeric line, side), first side first
LineOrdered(a, b, first_side) ==
    \/ NumLess(LineOf(a), LineOf(b))
    \/ /\ NumEq(LineOf(a), LineOf(b))
       /\ SideOf(b) = first_side => SideOf(a) = first_side

\* C6: the header is timestamp, then the money-line columns in the order
\* home, draw, away, then the spread columns ascending by numeric handicap
\* with home before away at equal handicap, then the totals columns
\* ascending by numeric line with over before under at equal line, then the
\* remaining columns in lexicographic order; it holds every extracted
\* column exactly once.
C6_HeaderOrder ==
    pc # "output_columns" =>
        /\ column_names[1] = "timestamp"
        /\ Len(column_names) = Len(columns.keys) + 1
        /\ { column_names[i] : i \in 2..Len(column_names) } = Range(columns.keys)
        /\ \A i, j \in 2..Len(column_names) :
             i < j =>
               LET a == column_names[i]
                   b == column_names[j]
               IN  /\ HeaderGroup(a) <= HeaderGroup(b)
                   /\ (HeaderGroup(a) = 1 /\ HeaderGroup(b) = 1) =>
                        \E m, n \in 1..3 :
                            m < n /\ preferred_order[m] = a /\ preferred_order[n] = b
                   /\ (HeaderGroup(a) = 2 /\ HeaderGroup(b) = 2
                       /\ HasNumericLine(a) /\ HasNumericLine(b)) =>
                        LineOrdered(a, b, "home")
                   /\ (HeaderGroup(a) = 3 /\ HeaderGroup(b) = 3
                       /\ HasNumericLine(a) /\ HasNumericLine(b)) =>
                        LineOrdered(a, b, "over")
                   /\ (HeaderGroup(a) = 4 /\ HeaderGroup(b) = 4) => StrLess(a, b)

\* a header holding two totals columns whose numeric order is the reverse of
\* both their insertion order and their lexicographic order
C6_Witness ==
    /\ pc = "done"
    /\ \E i, j \in 2..Len(column_names) :
         /\ i < j
         /\ column_names[i] = "totals_2.5_under"
         /\ column_names[j] = "totals_10.5_over"
         /\ columns.keys[1] = "totals_10.5_over"

-----------------------------------------------------------------------------
(* Vocabulary of the append properties                                     *)

IsPrefix(a, b) == Len(a) <= Len(b) /\ SubSeq(b, 1, Len(a)) = a

NoDuplicates(l) == \A i, j \in 1..Len(l) : i # j => l[i] # l[j]

\* the cell of a record line under the column named h, blank when the
\* header has no such column
CellUnder(header, cells, h) ==
    IF \E k \in 1..Len(header) : header[k] = h
    THEN cells[CHOOSE k \in 1..Len(header) : header[k] = h]
    ELSE ""

\* the step in which _append_long_csv rewrites the file
LongRewrite == fetch_pc = "append_long" /\ fetch_pc' = "pivot" /\ rows # <<>>

\* the step in which _append_wide_csv rewrites the file
WideRewrite == fetch_pc = "append_wide" /\ fetch_pc' = "fetch" /\ rows # <<>>

NewRowFields == UNION { Range(rows[i].keys) : i \in 1..Len(rows) }

ColumnKeys(rws) == { rws[i].val["column_key"] : i \in 1..Len(rws) }

-----------------------------------------------------------------------------
(* C7 *)

\* C7: the header _append_long_csv writes is the existing header in its
\* order followed by exactly the fields of the new rows that the existing
\* header lacks, and over every step the previous header is a prefix of the
\* current one.
C7_LongHeaderAppendsNewFields ==
    [][ /\ IsPrefix(long_csv.header, long_csv'.header)
        /\ LongRewrite =>
             LET added == SubSeq(long_csv'.header, Len(long_csv.header) + 1,
                                 Len(long_csv'.header))
             IN  /\ Range(added) = NewRowFields \ Range(long_csv.header)
                 /\ NoDuplicates(added) ]_vars

\* a rewritten long table whose header is the earlier field list followed
\* by fields only the new rows have
C7_Witness ==
    /\ fetch_pc = "pivot"
    /\ rows # <<>>
    /\ IsPrefix(LegacyHeader, long_csv.header)
    /\ Len(long_csv.header) > Len(LegacyHeader)
    /\ "column_key" \in Range(long_csv.header)

-----------------------------------------------------------------------------
(* C8 *)

\* C8: _append_long_csv keeps every earlier record, in its place and with
\* the same value under every field it had and a blank under every field
\* introduced by the rewrite, and writes the new rows behind them.
C8_LongAppendOnly ==
    [][ LongRewrite =>
          LET H  == long_csv.header
              H2 == long_csv'.header
              R  == long_csv.records
              R2 == long_csv'.records
          IN  /\ Len(R2) = Len(R) + Len(rows)
              /\ \A i \in 1..Len(R2) : Len(R2[i]) = Len(H2)
              /\ \A i \in 1..Len(R) :
                   /\ \A k \in 1..Len(H) : CellUnder(H2, R2[i], H[k]) = R[i][k]
                   /\ \A k \in 1..Len(H2) :
                        ~InList(H2[k], H) => R2[i][k] = ""
              /\ \A j \in 1..Len(rows) : \A k \in 1..Len(H2) :
                   R2[Len(R) + j][k] =
                      IF InList(H2[k], rows[j].keys)
                      THEN Str(rows[j].val[H2[k]])
                      ELSE "" ]_vars

\* a long table rewritten twice: the earliest record, blank under the added
\* fields, the rows of the first rewrite, then the latest rows
C8_Witness ==
    /\ fetch_pc = "pivot"
    /\ rows # <<>>
    /\ Len(fetched) >= 2 /\ fetched[1] # <<>>
    /\ Len(long_csv.records) = Len(LegacyRecords) + Len(fetched[1]) + Len(rows)
    /\ CellUnder(long_csv.header, long_csv.records[1], "price") = "2.0"
    /\ CellUnder(long_csv.header, long_csv.records[1], "column_key") = ""

-----------------------------------------------------------------------------
(* C9 *)

\* C9: the header _append_wide_csv writes is the existing header in its
\* order followed by the columns of the new snapshot not yet present, over
\* every step the previous header is a prefix of the current one, and the
\* snapshots {Match Odds | 1X2 | Home} then {Match Odds | 1X2 | Home,
\* Totals | O/U 2.5 | Over} on an empty table give the header fetched_at,
\* Match Odds | 1X2 | Home, Totals | O/U 2.5 | Over.
C9_WideHeaderGrows ==
    [][ /\ IsPrefix(wide_csv.header, wide_csv'.header)
        /\ WideRewrite =>
             LET added == SubSeq(wide_csv'.header, Len(wide_csv.header) + 1,
                                 Len(wide_csv'.header))
             IN  /\ Range(added) =
                       ({"fetched_at"} \cup ColumnKeys(rows)) \ Range(wide_csv.header)
                 /\ NoDuplicates(added)
                 /\ ( /\ Len(fetched) = 2
                      /\ ColumnKeys(fetched[1]) = {"Match Odds | 1X2 | Home"}
                      /\ ColumnKeys(fetched[2]) = {"Match Odds | 1X2 | Home",
                                                   "Totals | O/U 2.5 | Over"} )
                    => wide_csv'.header = <<"fetched_at",
                                            "Match Odds | 1X2 | Home",
                                            "Totals | O/U 2.5 | Over">> ]_vars

\* the wide table after the two snapshots of scenario 3
C9_Witness ==
    /\ fetch_pc = "fetch"
    /\ Len(fetched) = 2
    /\ ColumnKeys(fetched[1]) = {"Match Odds | 1X2 | Home"}
    /\ ColumnKeys(fetched[2]) = {"Match Odds | 1X2 | Home", "Totals | O/U 2.5 | Over"}
    /\ wide_csv.header = <<"fetched_at", "Match Odds | 1X2 | Home",
                           "Totals | O/U 2.5 | Over">>

-----------------------------------------------------------------------------
(* C10 *)

\* C10: _append_wide_csv keeps every earlier row in its place, each cell
\* under the same column name, blank under every newly introduced column,
\* and writes the row of the new snapshot last, blank under every column the
\* snapshot does not hold.
C10_WideRowsPreserved ==
    [][ WideRewrite =>
          LET H  == wide_csv.header
              H2 == wide_csv'.header
              R  == wide_csv.records
              R2 == wide_csv'.records
          IN  /\ Len(R2) = Len(R) + 1
              /\ \A i \in 1..Len(R2) : Len(R2[i]) = Len(H2)
              /\ \A i \in 1..Len(R) :
                   /\ \A k \in 1..Len(H) : CellUnder(H2, R2[i], H[k]) = R[i][k]
                   /\ \A k \in 1..Len(H2) :
                        ~InList(H2[k], H) => R2[i][k] = ""
              /\ \A k \in 1..Len(H2) :
                   R2[Len(R2)][k] =
                      IF H2[k] = "fetched_at" THEN rows[1].val["fetched_at"]
                      ELSE IF H2[k] \in ColumnKeys(rows)
                      THEN Str(LastPrice(rows, H2[k]))
                      ELSE "" ]_vars

\* two rows, each blank under a column only the other snapshot holds
C10_Witness ==
    /\ fetch_pc = "fetch"
    /\ Len(wide_csv.records) = 2
    /\ wide_csv.header = <<"fetched_at", "Totals | O/U 2.5 | Over",
                           "Match Odds | 1X2 | Home">>
    /\ wide_csv.records[1] = <<FetchTime(1), "1.9", "">>
    /\ wide_csv.records[2] = <<FetchTime(2), "", "2.1">>

-----------------------------------------------------------------------------
(* C11 *)

\* the fetches so far that returned at least one outcome row
NonEmptyFetches == SelectList(fetched, LAMBDA rws : rws # <<>>)

\* C11 as stated: between two runs the wide table holds exactly one data row
\* per fetch run so far, the i-th keyed by the capture time of the i-th run.
C11_RowPerFetch ==
    fetch_pc = "fetch" =>
        /\ Len(wide_csv.records) = run
        /\ \A i \in 1..Len(wide_csv.records) :
              wide_csv.records[i][1] = FetchTime(i)

\* C11: between two runs the wide table, empty at the first run, holds
\* exactly one data row per fetch run that returned at least one outcome, in
\* run order, each keyed in its first column (fetched_at) by the capture
\* time of that fetch; a fetch that returned no outcome adds no row.
C11_RowPerNonEmptyFetch ==
    fetch_pc = "fetch" =>
        /\ Len(wide_csv.records) = Len(NonEmptyFetches)
        /\ wide_csv.exists => wide_csv.header[1] = "fetched_at"
        /\ \A i \in 1..Len(wide_csv.records) :
              wide_csv.records[i][1] = NonEmptyFetches[i][1].val["fetched_at"]

\* two runs, the first with two outcomes, the second with one: two rows
C11_Witness ==
    /\ fetch_pc = "fetch"
    /\ run = 2
    /\ Len(fetched[1]) = 2
    /\ Len(fetched[2]) = 1
    /\ Len(wide_csv.records) = 2
    /\ wide_csv.records[1][1] = FetchTime(1)
    /\ wide_csv.records[2][1] = FetchTime(2)

-----------------------------------------------------------------------------
(* C18 *)

\* the state in which pivot_outcomes_wide has returned for a non-empty snapshot
Pivoted == fetch_pc = "append_wide" /\ rows # <<>>

\* C18: when rows of one snapshot share a column_key, pivot_outcomes_wide
\* returns (no error), its header holds that column exactly once, and the
\* cell of its single data row under that column is the price of the last
\* such row in snapshot order.
C18_LastWriteWins ==
    Pivoted =>
        /\ Len(wide.data) = 1
        /\ Len(wide.data[1]) = Len(wide.headers)
        /\ \A i \in 1..Len(rows) :
              LET key == rows[i].val["column_key"]
                  at  == { k \in 1..Len(wide.headers) : wide.headers[k] = key }
              IN  /\ Cardinality(at) = 1
                  /\ (\A j \in (i + 1)..Len(rows) : rows[j].val["column_key"] # key)
                       => \A k \in at : wide.data[1][k] = rows[i].val["price"]

\* two rows under one column key with the prices 2.1 then 2.4: one column,
\* holding 2.4
C18_Witness ==
    /\ Pivoted
    /\ Len(rows) = 2
    /\ rows[1].val["column_key"] = rows[2].val["column_key"]
    /\ rows[1].val["price"] = "2.1"
    /\ rows[2].val["price"] = "2.4"
    /\ wide.headers = <<"fetched_at", rows[1].val["column_key"]>>
    /\ wide.data = << <<rows[1].val["fetched_at"], "2.4">> >>

-----------------------------------------------------------------------------
(* C19 *)

\* the timestamps filter_and_fill_data keeps under the given threshold
KeptTimestamps(threshold) ==
    LET kept == KeptIndices(initial_data, threshold)
    IN  { initial_data[kept[k]][1] : k \in 1..Len(kept) }

\* C19: for thresholds a <= b, every row that filter_and_fill_data keeps
\* with threshold b is also kept with threshold a on the same input; b is the
\* threshold of the run, a ranges over every smaller threshold down to 0.
C19_ThresholdMonotonic ==
    Filtered =>
        \A a \in 0..min_values_per_row :
            Range(filtered_timestamps) \subseteq KeptTimestamps(a)

\* a run whose threshold removed a row that threshold 0 keeps, and kept another
C19_Witness ==
    /\ Filtered
    /\ min_values_per_row > 0
    /\ filtered_timestamps # <<>>
    /\ Range(filtered_timestamps) # KeptTimestamps(0)
    /\ Range(filtered_timestamps) \subseteq KeptTimestamps(0)

-----------------------------------------------------------------------------
(* C12 *)

HeaderSet(file) == Range(file.header)

\* C12: from any initial tables, appending snapshot A then snapshot B leaves
\* the same set of header fields as appending B then A, in the long table
\* and in the wide table.
C12_HeaderSetOrderFree ==
    replay_pc = "done" =>
        /\ HeaderSet(tables["ab"].long) = HeaderSet(tables["ba"].long)
        /\ HeaderSet(tables["ab"].wide) = HeaderSet(tables["ba"].wide)

\* two snapshots with different columns and field lists: the two orders
\* give different wide header lines over the same fields
C12_Witness ==
    /\ replay_pc = "done"
    /\ snap_a.rows # <<>>
    /\ snap_b.rows # <<>>
    /\ snap_a.fields # snap_b.fields
    /\ Len(tables["ab"].long.header) > Len(FlatKeys)
    /\ tables["ab"].wide.header # tables["ba"].wide.header
    /\ HeaderSet(tables["ab"].long) = HeaderSet(tables["ba"].long)
    /\ HeaderSet(tables["ab"].wide) = HeaderSet(tables["ba"].wide)

-----------------------------------------------------------------------------
(* C13 *)

\* the step in which snapshot A is appended to the long table that already
\* holds it
Reappend == replay_pc = "second" /\ replay_pc' = "done" /\ snap_a.rows # <<>>

\* C13: _append_long_csv run again with the same rows on the file that
\* already ends with them leaves the header as it is, keeps every record and
\* adds the same records once more.
C13_ReappendDuplicates ==
    [][ Reappend =>
          LET before == tables["aa"].long
              after  == tables'["aa"].long
              n      == Len(snap_a.rows)
              m      == Len(before.records)
          IN  /\ after.header = before.header
              /\ after.records =
                    before.records \o SubSeq(before.records, m - n + 1, m) ]_vars

\* a table holding the two rows of one snapshot twice
C13_Witness ==
    /\ replay_pc = "done"
    /\ Len(snap_a.rows) = 2
    /\ LET recs == tables["aa"].long.records
           m    == Len(recs)
       IN  /\ m >= 4
           /\ recs[m] = recs[m - 2]
           /\ recs[m - 1] = recs[m - 3]
           /\ recs[m] # recs[m - 1]

-----------------------------------------------------------------------------
(* Vocabulary of the extraction properties                                 *)

ExtractionOver == extract_pc \in {"returned", "failed"}

\* the extraction failed and handed nothing to its caller
FailedEmpty ==
    /\ extract_pc = "failed"
    /\ extracted.error # None
    /\ extracted.columns.keys = <<>>
    /\ extracted.all_timestamps = {}

EventList ==
    IF json_data.kind = "dict" /\ InList("events", json_data.keys)
    THEN json_data.val["events"].items
    ELSE <<>>

HasPeriods(event) == InList("periods", event.keys)

\* the period holds a history section that is a non-empty dict
HoldsHistory(period) ==
    /\ InList("history", period.keys)
    /\ period.val["history"].kind = "dict"
    /\ period.val["history"].keys # <<>>

\* positions of the periods of an event that hold a history
HistoryPositions(event) ==
    IF HasPeriods(event)
    THEN { i \in 1..Len(event.val["periods"].keys) :
             HoldsHistory(event.val["periods"].val[event.val["periods"].keys[i]]) }
    ELSE {}

\* the extraction returned the first period of the event that holds a
\* history, with the columns of that history
ReturnedFirstHistoryOf(event) ==
    /\ extract_pc = "returned"
    /\ extracted.error = None
    /\ HistoryPositions(event) # {}
    /\ LET periods == event.val["periods"]
           first   == CHOOSE i \in HistoryPositions(event) :
                         \A j \in HistoryPositions(event) : i <= j
       IN  /\ extracted.period_key = periods.keys[first]
           /\ extracted.columns =
                 HistoryColumns(periods.val[periods.keys[first]].val["history"])

-----------------------------------------------------------------------------
(* C14 *)

\* C14 as stated: the extraction fails, handing nothing over, when there is
\* no event, when the first event has no periods, or when no period of any
\* event of the input holds a non-empty history; in every other case it
\* returns the columns of the first period holding a non-empty history.
C14_FailsOnlyWithoutAnyHistory ==
    ExtractionOver =>
        IF \/ EventList = <<>>
           \/ ~HasPeriods(EventList[1])
           \/ \A e \in 1..Len(EventList) : HistoryPositions(EventList[e]) = {}
        THEN FailedEmpty
        ELSE extract_pc = "returned"

\* C14: the extraction fails, handing nothing over, when there is no event,
\* when the first event has no periods, or when no period of the first event
\* holds a non-empty history section; in every other case it returns the
\* columns of the first period, in document order, of the first event that
\* holds a non-empty history section.
C14_FailsWithoutHistoryInFirstEvent ==
    ExtractionOver =>
        IF \/ EventList = <<>>
           \/ ~HasPeriods(EventList[1])
           \/ HistoryPositions(EventList[1]) = {}
        THEN FailedEmpty
        ELSE ReturnedFirstHistoryOf(EventList[1])

\* an event whose first period has an empty history and whose second period
\* holds one: the second period is returned
C14_Witness ==
    /\ extract_pc = "returned"
    /\ Len(EventList) = 1
    /\ LET periods == EventList[1].val["periods"]
       IN  /\ periods.keys = <<"num_0", "num_1">>
           /\ InList("history", periods.val["num_0"].keys)
           /\ HistoryPositions(EventList[1]) = {2}
    /\ extracted.period_key = "num_1"
    /\ extracted.columns.keys = <<"money_line_home">>

-----------------------------------------------------------------------------
(* C15 *)

\* the history section the extraction chose
ChosenHistory ==
    EventList[1].val["periods"].val[extracted.period_key].val["history"]

IsDictIn(node, key) == InList(key, node.keys) /\ node.val[key].kind = "dict"

IsArrayIn(node, key) == InList(key, node.keys) /\ node.val[key].kind = "list"

\* the outcome arrays of a history, each as <<column name, array>>: the
\* moneyline sub-keys home, draw, away; the sides home, away of every spreads
\* handicap; the sides over, under of every totals line; the direct
\* sub-keys of every other family
OutcomeArrays(history) ==
    LET Family(key) == history.val[key]
        Sided(key, prefix, sides) ==
            IF IsDictIn(history, key)
            THEN { <<prefix \o line \o "_" \o side, Family(key).val[line].val[side]>> :
                     <<line, side>> \in
                        { ls \in Range(Family(key).keys) \X sides :
                            /\ IsDictIn(Family(key), ls[1])
                            /\ IsArrayIn(Family(key).val[ls[1]], ls[2]) } }
            ELSE {}
        Money ==
            IF IsDictIn(history, "moneyline")
            THEN { <<"money_line_" \o side, Family("moneyline").val[side]>> :
                     side \in { sd \in {"home", "draw", "away"} :
                                  IsArrayIn(Family("moneyline"), sd) } }
            ELSE {}
        Others ==
            { <<ks[1] \o "_" \o ks[2], Family(ks[1]).val[ks[2]]>> :
                ks \in { fs \in (Range(history.keys) \ {"moneyline", "spreads", "totals"})
                                 \X UNION { Range(history.val[f].keys) :
                                               f \in Range(history.keys) } :
                           /\ IsDictIn(history, fs[1])
                           /\ IsArrayIn(Family(fs[1]), fs[2]) } }
    IN  Money \cup Sided("spreads", "spread_", {"home", "away"})
              \cup Sided("totals", "totals_", {"over", "under"}) \cup Others

\* C15: a returned extraction holds exactly one series per outcome array of
\* the chosen history, named money_line_<side>, spread_<handicap>_<side>,
\* totals_<line>_<side> or <family>_<subkey>, holding the entries of that
\* array, and no other column.
C15_OneSeriesPerOutcomeArray ==
    extract_pc = "returned" =>
        LET arrays == OutcomeArrays(ChosenHistory)
            names  == extracted.columns.keys
        IN  /\ Range(names) = { a[1] : a \in arrays }
            /\ Len(names) = Cardinality(arrays)
            /\ \A a \in arrays :
                  \A item \in Range(a[2].items) :
                      (item.kind = "list" /\ Len(item.items) > 1)
                      => item.items[1] \in DOMAIN extracted.columns.val[a[1]]

\* a history with all four kinds of family, an unknown moneyline sub-key, a
\* handicap that is no dict and a scalar sub-key: seven series
C15_Witness ==
    /\ extract_pc = "returned"
    /\ ChosenHistory.keys = <<"moneyline", "spreads", "totals", "corners">>
    /\ ChosenHistory.val["moneyline"].keys = <<"away", "extra", "home">>
    /\ extracted.columns.keys =
          <<"money_line_home", "money_line_away", "spread_0.0_home",
            "totals_2.5_over", "totals_2.5_under", "corners_home", "corners_away">>

-----------------------------------------------------------------------------
(* Vocabulary of the flattening properties                                 *)

Flattened == flatten_pc = "flattened"

\* number of outcome lines of the i-th special market
NumLines(i) == IF specials[i].lines.missing THEN 0 ELSE Len(specials[i].lines.keys)

\* number of outcome lines of the first n special markets
LinesBefore(n) ==
    LET f[i \in 0..n] == IF i = 0 THEN 0 ELSE f[i - 1] + NumLines(i)
    IN  f[n]

\* the j-th outcome line of the i-th special market
LineAt(i, j) == specials[i].lines.val[specials[i].lines.keys[j]]

\* the row made of the j-th outcome line of the i-th special market, if rows
\* follow the payload order
RowAt(i, j) == flat_rows[LinesBefore(i - 1) + j]

NoBlankAtEnds(s) ==
    s = "" \/ (CharAt(s, 1) # " " /\ CharAt(s, Len(s)) # " ")

-----------------------------------------------------------------------------
(* C16 *)

\* what C16 says of a raw text and the label made of it
NormalizedAsStated(text, label, home_team, away_team, category) ==
    /\ Contains(text, home_team) => Contains(label, "Home")
    /\ Contains(text, away_team) => Contains(label, "Away")
    /\ (category # None /\ lower(category) = "team props")
         => ~startswith(label, "Team Props")
    /\ ~Contains(label, "?")
    /\ NoBlankAtEnds(label)
    /\ (text = home_team \o "?") => (Contains(label, "Home") /\ ~Contains(label, "?"))

\* C16: in every row, the outcome label and the market label hold "Home"
\* wherever the raw name held the home team name and "Away" wherever it held
\* the away team name, no team-props prefix when the category is team props,
\* no question mark, and no blank at either end.
C16_NamesBecomeTokens ==
    Flattened =>
        \A i \in 1..Len(specials) : \A j \in 1..NumLines(i) :
            LET row == RowAt(i, j).val
            IN  /\ (LineAt(i, j).name # None =>
                      NormalizedAsStated(LineAt(i, j).name, row["outcome_name"],
                                         row["home_team"], row["away_team"],
                                         specials[i].category))
                /\ (specials[i].name # None =>
                      NormalizedAsStated(specials[i].name, row["market_name"],
                                         row["home_team"], row["away_team"],
                                         specials[i].category))

-----------------------------------------------------------------------------
(* C17 *)

\* C17: specials_to_rows returns one row per outcome line, market by market
\* in list order and line by line in mapping order, each row holding the
\* identifiers and category of its market and the identifiers, handicap and
\* price of its line; no market, or a market without lines, gives no row.
C17_RowPerOutcomeLine ==
    Flattened =>
        /\ Len(flat_rows) = LinesBefore(Len(specials))
        /\ \A i \in 1..Len(specials) : \A j \in 1..NumLines(i) :
              LET row == RowAt(i, j).val
              IN  /\ row["special_id"] = specials[i].special_id
                  /\ row["event_id"] = specials[i].event_id
                  /\ row["category"] = specials[i].category
                  /\ row["bet_type"] = specials[i].bet_type
                  /\ row["line_id"] = LineAt(i, j).line_id
                  /\ row["outcome_id"] = LineAt(i, j).id
                  /\ row["handicap"] = LineAt(i, j).handicap
                  /\ row["price"] = LineAt(i, j).price

\* a market of two lines followed by a market without the lines key: two rows
C17_Witness ==
    /\ Flattened
    /\ Len(specials) = 2
    /\ NumLines(1) = 2
    /\ specials[2].lines.missing
    /\ Len(flat_rows) = 2
    /\ flat_rows[1].val["special_id"] = "101"
    /\ flat_rows[1].val["line_id"] # flat_rows[2].val["line_id"]

\* an empty specials list flattened to no row
C17_WitnessEmpty == Flattened /\ specials = <<>> /\ flat_rows = <<>>

-----------------------------------------------------------------------------
(* C20 *)

RaceOver == \A w \in Writers : race_pc[w] = "done"

\* position of a step of a writer in the log, 0 when it did not happen
StepAt(w, step) ==
    IF \E i \in 1..Len(race_log) : race_log[i] = <<w, step>>
    THEN CHOOSE i \in 1..Len(race_log) : race_log[i] = <<w, step>>
    ELSE 0

\* both invocations rewrote the file
BothRewrote == \A w \in Writers : StepAt(w, "write") > 0

\* both read the file before either began to rewrite it
BothReadFirst ==
    BothRewrote /\ \A w, v \in Writers : StepAt(w, "read") < StepAt(v, "open")

\* one rewrite was complete before the other began
RewritesApart ==
    BothRewrote /\ \E w, v \in Writers : StepAt(w, "write") < StepAt(v, "open")

\* one append was complete before the other began
Serial ==
    BothRewrote /\ \E w, v \in Writers : StepAt(w, "write") < StepAt(v, "read")

LastWriter == CHOOSE w \in Writers : \A v \in Writers : StepAt(v, "write") <= StepAt(w, "write")

FirstWriter == CHOOSE w \in Writers : w # LastWriter

\* the file is exactly the table t, with nothing behind it
DiskIs(t) == disk = t /\ disk_tail = 0

\* no record of the file was captured by writer w
RowsLost(w) ==
    \A i \in 1..Len(disk.records) :
        CellUnder(disk.header, disk.records[i], "fetched_at") # FetchTime(w)

\* the file holds a record captured by writer w
RowsPresent(w) ==
    \E i \in 1..Len(disk.records) :
        CellUnder(disk.header, disk.records[i], "fetched_at") = FetchTime(w)

\* the last writer's full rewrite of the table both read, without the rows
\* of the other writer
LastWriterWon ==
    /\ DiskIs(Rewrite(race_kind, race_start, race_rows[LastWriter]))
    /\ RowsLost(FirstWriter)

\* the table after the two appends in turn
BothAppended ==
    /\ DiskIs(Rewrite(race_kind,
                      Rewrite(race_kind, race_start, race_rows[FirstWriter]),
                      race_rows[LastWriter]))
    /\ \A w \in Writers : RowsPresent(w)

\* C20 as stated: when both appends read the file before either rewrites
\* it, the final file is the last writer's full rewrite and the rows of the
\* other writer are lost; when the appends run one after the other, the rows
\* of both are present.
C20_LastRewriteWins ==
    RaceOver =>
        /\ BothReadFirst => LastWriterWon
        /\ Serial => BothAppended

\* C20: when both appends read the file before either rewrites it and one
\* rewrite is complete before the other begins, the final file is the last
\* writer's full rewrite and the rows of the other writer are lost; when the
\* appends run one after the other, the rows of both are present.
C20_LastSeparateRewriteWins ==
    RaceOver =>
        /\ (BothReadFirst /\ RewritesApart) => LastWriterWon
        /\ Serial => BothAppended

\* both read a table holding a record, the rewrites followed each other,
\* and the file holds that record and the last writer's rows only
C20_Witness ==
    /\ RaceOver
    /\ BothReadFirst
    /\ RewritesApart
    /\ race_start.records # <<>>
    /\ RowsPresent(LastWriter)
    /\ RowsLost(FirstWriter)
    /\ Len(disk.records) = Len(race_start.records) + Len(race_rows[LastWriter])
    /\ disk_tail = 0

-----------------------------------------------------------------------------
(* C21 *)

\* C21: when extract_odds_columns raises, the run ends with the output
\* table and the fill report as they were before it: neither opened,
\* created nor written.
C21_FailedExtractionWritesNothing ==
    extract_pc = "failed" => out_files = out_before

\* a failed extraction of a run that names an output table left by an
\* earlier run
C21_Witness ==
    /\ extract_pc = "failed"
    /\ extracted.error = "No history section found in any period"
    /\ out_before.path # None
    /\ out_before.table = "old"
    /\ out_files.table = "old"
    /\ out_files.report = "old"

-----------------------------------------------------------------------------
(* C22, C23 *)

\* an array entry as the specification words it: a sequence of at least two
\* cells
IsEntry(item) == item.kind = "list" /\ Len(item.items) >= 2

\* the positions of the entries of an array that carry the timestamp
EntriesAt(array, ts) ==
    { i \in 1..Len(array.items) :
        IsEntry(array.items[i]) /\ array.items[i].items[1] = ts }

\* the series extracted for an outcome array, named by its column
SeriesOf(a) == extracted.columns.val[a[1]]

\* C22: within one extracted series each timestamp maps to one value, and a
\* timestamp carried by several well-formed entries of the array maps to
\* the value of the last of them in array order.
C22_LastEntryOfTimestampWins ==
    extract_pc = "returned" =>
        \A a \in OutcomeArrays(ChosenHistory) :
            \A ts \in DOMAIN SeriesOf(a) :
                /\ EntriesAt(a[2], ts) # {}
                /\ \A i \in EntriesAt(a[2], ts) :
                      (\A j \in EntriesAt(a[2], ts) : j <= i)
                      => SeriesOf(a)[ts] = a[2].items[i].items[2]

\* an array holding two entries of timestamp 100 with different values:
\* the series holds the second value
C22_Witness ==
    /\ extract_pc = "returned"
    /\ extracted.columns.keys = <<"money_line_home">>
    /\ \E a \in OutcomeArrays(ChosenHistory) :
          /\ Cardinality(EntriesAt(a[2], 100)) = 2
          /\ a[2].items[1].items[2] = "1.5"
          /\ a[2].items[2].items[2] = "1.6"
          /\ SeriesOf(a)[100] = "1.6"

\* C23: an array entry that is not a sequence of at least two cells is
\* skipped without an error, giving no value to its series and no
\* timestamp to the union, and every well-formed entry of the same array
\* is extracted from its cells 0 and 1 alone.
C23_MalformedEntriesSkipped ==
    (extract_pc # "extract" /\ EventList # <<>> /\ HasPeriods(EventList[1])
        /\ HistoryPositions(EventList[1]) # {}) =>
        /\ extracted.error = None
        /\ LET arrays == OutcomeArrays(ChosenHistory)
           IN  /\ \A a \in arrays :
                     /\ DOMAIN SeriesOf(a) =
                           { a[2].items[i].items[1] :
                               i \in { k \in 1..Len(a[2].items) : IsEntry(a[2].items[k]) } }
                     /\ \A ts \in DOMAIN SeriesOf(a) :
                           \E i \in EntriesAt(a[2], ts) :
                               SeriesOf(a)[ts] = a[2].items[i].items[2]
               /\ extracted.all_timestamps =
                     UNION { DOMAIN SeriesOf(a) : a \in arrays }

\* an array holding a list of one cell, whose timestamp 300 no entry
\* carries, next to an entry of three cells: the series holds the entry
\* alone and 300 is not in the union
C23_Witness ==
    /\ extract_pc = "returned"
    /\ \E a \in OutcomeArrays(ChosenHistory) :
          /\ Len(a[2].items) = 2
          /\ a[2].items[1] = JList(<<300>>)
          /\ Len(a[2].items[2].items) = 3
          /\ DOMAIN SeriesOf(a) = {200}
          /\ SeriesOf(a)[200] = "1.7"
    /\ extracted.all_timestamps = {200}

-----------------------------------------------------------------------------
(* C24 *)

\* the cells of the line n of the written table
Cells(n) == split(output[n], ",")

\* column slots without an observed value in any surviving row
UnobservedSlots == { c \in ColumnSlots : ObservedRows(c) = {} }

-----------------------------------------------------------------------------
(* C25 *)

\* the slot (surviving row r, column slot c) was absent and holds a value
WasFilled(r, c) == OriginalRow(r)[c] = None /\ filtered_data[r][c] # None

\* positions of the by_column records of the slot
ColumnRecords(r, c) ==
    { n \in 1..Len(FillRecords(c)) : FillRecords(c)[n].row_index = r - 1 }

\* the by_row records of the surviving row r
RowRecords(r) ==
    IF (r - 1) \in DOMAIN fill_report.by_row
    THEN fill_report.by_row[r - 1] ELSE <<>>

\* positions of the by_row records of the slot
SlotRowRecords(r, c) ==
    { n \in 1..Len(RowRecords(r)) : RowRecords(r)[n].column = column_names[c] }

RECURSIVE SumOver(_, _)
\* the sum of the lengths of the lists f[k], k in keys
SumOver(f, keys) ==
    IF keys = {} THEN 0
    ELSE LET k == CHOOSE x \in keys : TRUE
         IN  Len(f[k]) + SumOver(f, keys \ {k})

\* C25: the fill audit agrees with the matrix: a slot of a surviving row
\* has a fill record iff it was absent before filling and holds a value
\* afterwards, it then has exactly one record by column and one by row,
\* whose filled_value is the final value of the slot, and total_filled
\* equals the number of records by column and the number of records by row.
C25_FillAuditConsistent ==
    pc = "done" =>
        /\ \A c \in ColumnSlots : \A r \in SurvivingRows :
              /\ ColumnRecords(r, c) # {} <=> WasFilled(r, c)
              /\ SlotRowRecords(r, c) # {} <=> WasFilled(r, c)
              /\ Cardinality(ColumnRecords(r, c)) <= 1
              /\ Cardinality(SlotRowRecords(r, c)) <= 1
              /\ \A n \in ColumnRecords(r, c) :
                    /\ FillRecords(c)[n].filled_value = filtered_data[r][c]
                    /\ FillRecords(c)[n].timestamp = filtered_data[r][1]
              /\ \A n \in SlotRowRecords(r, c) :
                    RowRecords(r)[n].filled_value = filtered_data[r][c]
        /\ DOMAIN fill_report.by_column = { column_names[c] : c \in ColumnSlots }
        /\ \A c \in ColumnSlots : \A n \in 1..Len(FillRecords(c)) :
              FillRecords(c)[n].row_index + 1 \in SurvivingRows
        /\ \A i \in DOMAIN fill_report.by_row :
              /\ i + 1 \in SurvivingRows
              /\ \A n \in 1..Len(fill_report.by_row[i]) :
                    \E c \in ColumnSlots :
                        fill_report.by_row[i][n].column = column_names[c]
        /\ fill_report.total_filled =
              SumOver(fill_report.by_column, DOMAIN fill_report.by_column)
        /\ fill_report.total_filled =
              SumOver(fill_report.by_row, DOMAIN fill_report.by_row)

\* a row filled in two columns and a column filled in two rows, one
\* backward and one forward
C25_Witness ==
    /\ pc = "done"
    /\ fill_report.total_filled = 5
    /\ \E r \in SurvivingRows : Len(RowRecords(r)) = 2
    /\ \E c \in ColumnSlots :
          /\ Len(FillRecords(c)) = 2
          /\ FillRecords(c)[1].method = "forward_fill"
          /\ FillRecords(c)[2].method = "backward_fill"

-----------------------------------------------------------------------------
(* C26 *)

\* C26: filling leaves observed data alone: during and after the fills
\* every slot of a surviving row that held a value in the unfiltered matrix
\* holds that value, and every surviving row keeps its timestamp.
C26_FillKeepsObservedData ==
    Filtered =>
        /\ Len(filtered_data) = Len(filtered_timestamps)
        /\ \A r \in SurvivingRows :
              /\ filtered_data[r][1] = filtered_timestamps[r]
              /\ filtered_data[r][1] =
                    initial_data[KeptIndices(initial_data, min_values_per_row)[r]][1]
              /\ \A c \in ColumnSlots :
                    OriginalRow(r)[c] # None
                    => filtered_data[r][c] = OriginalRow(r)[c]

\* a filled row that holds, beside the filled slot, an observed value
\* differing from the value filled in
C26_Witness ==
    /\ pc = "done"
    /\ \E r \in SurvivingRows : \E c, d \in ColumnSlots :
          /\ WasFilled(r, c)
          /\ OriginalRow(r)[d] # None
          /\ filtered_data[r][d] # filtered_data[r][c]

-----------------------------------------------------------------------------
(* C27 *)

\* the surviving rows that carry the timestamp
SurvivingAt(ts) == { r \in SurvivingRows : filtered_data[r][1] = ts }

\* the removed-row records that carry the timestamp
RemovedAt(ts) ==
    { n \in 1..Len(fill_report.removed_rows) :
        fill_report.removed_rows[n].timestamp = ts }

\* C27: the filter partitions the timestamp axis: every timestamp of the
\* union is carried by exactly one surviving row or by exactly one
\* removed-row record, never by both, and no other timestamp by any, so
\* the surviving rows and the removed-row records together number the
\* distinct timestamps.
C27_FilterPartitionsTimestamps ==
    Filtered =>
        /\ \A ts \in all_timestamps :
              Cardinality(SurvivingAt(ts)) + Cardinality(RemovedAt(ts)) = 1
        /\ \A r \in SurvivingRows : filtered_data[r][1] \in all_timestamps
        /\ \A n \in 1..Len(fill_report.removed_rows) :
              fill_report.removed_rows[n].timestamp \in all_timestamps
        /\ Len(filtered_data) + Len(fill_report.removed_rows)
              = Cardinality(all_timestamps)

\* two timestamps, the earlier row kept and the later row, holding exactly
\* min_values_per_row values, removed
C27_Witness ==
    /\ pc = "done"
    /\ all_timestamps = {100, 200}
    /\ min_values_per_row = 1
    /\ filtered_timestamps = <<100>>
    /\ Len(fill_report.removed_rows) = 1
    /\ fill_report.removed_rows[1].timestamp = 200
    /\ fill_report.removed_rows[1].non_empty_count = 1

-----------------------------------------------------------------------------
(* C28 *)

\* C28: after any sequence of _append_wide_csv calls on a table that was
\* missing or empty at first, the written table has a header without a
\* repeated column name and with fetched_at first, and every data row has
\* as many cells as the header.
C28_WideTableRectangular ==
    wide_csv.exists =>
        /\ NoDuplicates(wide_csv.header)
        /\ wide_csv.header[1] = "fetched_at"
        /\ \A i \in 1..Len(wide_csv.records) :
              Len(wide_csv.records[i]) = Len(wide_csv.header)

\* a table of two rows whose header grew with the second snapshot and kept
\* a column only the first snapshot holds
C28_Witness ==
    /\ fetch_pc = "fetch"
    /\ Len(fetched) = 2
    /\ Len(wide_csv.records) = 2
    /\ Len(wide_csv.header) = 3
    /\ Cardinality(ColumnKeys(fetched[1])) = 1
    /\ Cardinality(ColumnKeys(fetched[2])) = 1
    /\ wide_csv.records[1][3] = ""
    /\ wide_csv.records[2][2] = ""

-----------------------------------------------------------------------------
(* C29 *)

\* the step in which _append_long_csv is called with an empty row list
LongAppendOfNothing ==
    fetch_pc = "append_long" /\ fetch_pc' = "pivot" /\ rows = <<>>

\* the step in which _append_wide_csv is called with an empty row list or
\* a pivot without headers
WideAppendOfNothing ==
    /\ fetch_pc = "append_wide" /\ fetch_pc' = "fetch"
    /\ (rows = <<>> \/ wide.headers = <<>>)

\* C29: an append of an empty snapshot is a no-op: _append_long_csv with
\* an empty row list and _append_wide_csv with an empty row list or a
\* pivot without headers leave the target as it was, a missing file
\* missing and an existing one with its comment line, header and records.
C29_EmptyAppendIsNoOp ==
    [][ /\ LongAppendOfNothing => long_csv' = long_csv
        /\ WideAppendOfNothing => wide_csv' = wide_csv ]_vars

\* a second run that fetched nothing, after both appends: the tables hold
\* what the first run wrote, and the long table still lacks the fields and
\* the comment line a rewrite would have given it
C29_Witness ==
    /\ fetch_pc = "fetch"
    /\ Len(fetched) = 2
    /\ fetched[1] # <<>>
    /\ fetched[2] = <<>>
    /\ wide_csv.exists
    /\ Len(wide_csv.records) = 1
    /\ wide_csv.records[1][1] = FetchTime(1)
    /\ long_csv.exists
    /\ Len(long_csv.records) = Len(fetched[1])

-----------------------------------------------------------------------------
(* C30 *)

\* the step in which the append of writer w is left by an exception
FailStep(w, cause) ==
    /\ race_pc[w] # "failed"
    /\ race_pc'[w] = "failed"
    /\ race_log' = Append(race_log, <<w, "fail " \o cause>>)

FileKept == disk' = disk /\ disk_tail' = disk_tail

\* the append of writer w ran alone: the other invocation returned at once
Alone(w) == \A v \in Writers \ {w} : race_rows[v] = <<>>

\* the tables a failure inside the with block of writer w can leave
PartialTables(w) ==
    LET content == Rewrite(race_kind, race_start, race_rows[w])
    IN  { [content EXCEPT !.records = SubSeq(@, 1, k)] :
            k \in 0..(Len(content.records) - 1) }

\* C30 as stated: both appends read the file, merge the header and build
\* the rows to write before the file is opened for writing, so a failure
\* of the read, of the header merge or of the row build leaves the file
\* as it was.
C30_FailedMergeKeepsFile ==
    [][ \A w \in Writers : \A cause \in {"read", "header", "rows"} :
            FailStep(w, cause) => FileKept ]_vars

\* C30: both appends read the file and merge the header before the file
\* is opened for writing, and the wide append builds its rows before it as
\* well, so a failure of the read, of the header merge or of the wide row
\* build leaves the file as it was; the long append builds its rows after
\* the open.  The file changes only in the open, the write or the failure
\* of an invocation that has finished its read, and an append running
\* alone ends with the file as it was, fully rewritten, or, only when it
\* failed after its open, truncated or partial.
C30_FailureBeforeOpenKeepsFile ==
    [][ \A w \in Writers :
          /\ \A cause \in Causes :
                (FailStep(w, cause)
                   /\ (cause \in {"read", "header"}
                         \/ (cause = "rows" /\ race_kind = "wide")))
                => /\ FileKept
                   /\ StepAt(w, "open") = 0
          /\ (race_pc'[w] # race_pc[w] /\ ~FileKept)
                => /\ race_pc[w] \in {"open", "write"}
                   /\ StepAt(w, "read") > 0
          /\ (Alone(w) /\ race_pc'[w] \in {"done", "failed"})
                => \/ disk' = race_start /\ StepAt(w, "open") = 0
                   \/ /\ race_pc'[w] = "done"
                      /\ disk' = Rewrite(race_kind, race_start, race_rows[w])
                   \/ /\ race_pc'[w] = "failed"
                      /\ StepAt(w, "open") > 0
                      /\ disk' \in PartialTables(w) ]_vars

\* a long append running alone on the legacy table failed while it built
\* its rows: the file holds the new match line and the merged header, not
\* the new rows; and the read had been logged before the open
C30_Witness ==
    /\ race_kind = "long"
    /\ race_start.exists
    /\ Alone(1)
    /\ race_pc[1] = "failed"
    /\ StepAt(1, "fail rows") > StepAt(1, "open")
    /\ StepAt(1, "open") > StepAt(1, "read")
    /\ StepAt(1, "read") > 0
    /\ disk # race_start
    /\ disk.comment = MatchLine(race_rows[1], EVENT_ID)
    /\ Len(disk.header) > Len(race_start.header)
    /\ Len(disk.records) = Len(race_start.records)

====
